---- MODULE Spec2Model ----
(***************************************************************************)
(* Model of the medication-reminder call controller: the four webhook      *)
(* handlers of controllers/callController, the twilioService helpers they  *)
(* call, and the CallLog store they write.  Strings whose content the code *)
(* inspects (transcripts, phone numbers, retryCount query values) are      *)
(* sequences of one-character strings, so that trim, toLowerCase,          *)
(* includes, the E.164 regular expression and parseInt are computed as the *)
(* code computes them.                                                     *)
(***************************************************************************)
EXTENDS Integers, Sequences, FiniteSets, TLC

VARIABLES
    store,      \* the CallLog collection: callSid -> document
    CallLog,    \* the object models/callLog exports: "model" or "mock"
    freeSids,   \* call identifiers the provider has not assigned yet
    smsSent,    \* per call identifier, the messages the provider accepted
    last,       \* the request handled last, its response and what it did
    pending,    \* the request a replay run applies, if any
    applied,    \* how many times the pending request has been applied
    leg,        \* the provider's side of one call leg it drives
    inflight,   \* the handlers that are between two of their awaited calls
    mongo       \* models/callLog's own state: its CallLog variable, the connection

vars ==
    <<store, CallLog, freeSids, smsSent, last, pending, applied, leg, inflight,
      mongo>>

-----------------------------------------------------------------------------
(* Bounds of the model *)

\* largest retryCount value an arbitrary webhook request carries
MaxRetryParam == 3
\* number of words of the transcripts the classifier is applied to
MaxWords == 2
\* successful SMS sends counted per call
MaxSms == 2
\* prompts counted on one provider-driven call leg
MaxPrompts == 4
\* times one and the same request is applied in a replay run
MaxReplay == 2
\* webhook events handled in one step-by-step run
MaxEvents == 3
\* digits of the longest phone number the validation is applied to
MaxDigits == 16

-----------------------------------------------------------------------------
(* Optional values: undefined / null is <<>>, a present value v is <<v>> *)

Absent == <<>>

Some(v) == <<v>>

IsPresent(o) == o # <<>>

-----------------------------------------------------------------------------
(* JavaScript string operations on sequences of characters *)

UpperCase == <<"A","B","C","D","E","F","G","H","I","J","K","L","M",
               "N","O","P","Q","R","S","T","U","V","W","X","Y","Z">>

LowerCase == <<"a","b","c","d","e","f","g","h","i","j","k","l","m",
               "n","o","p","q","r","s","t","u","v","w","x","y","z">>

Digits == <<"0","1","2","3","4","5","6","7","8","9">>

WhiteSpace == {" ", "\t", "\n"}

LowerChar(ch) ==
    IF \E i \in 1..26 : UpperCase[i] = ch
    THEN LowerCase[CHOOSE i \in 1..26 : UpperCase[i] = ch]
    ELSE ch

\* String.prototype.toLowerCase
RECURSIVE ToLowerCase(_)
ToLowerCase(s) ==
    IF s = <<>> THEN <<>> ELSE <<LowerChar(Head(s))>> \o ToLowerCase(Tail(s))

\* String.prototype.includes: k occurs in s at some position
Includes(s, k) ==
    \E i \in 1..(Len(s) - Len(k) + 1) :
        \A j \in 1..Len(k) : s[i + j - 1] = k[j]

RECURSIVE TrimStart(_)
TrimStart(s) ==
    IF s # <<>> /\ Head(s) \in WhiteSpace THEN TrimStart(Tail(s)) ELSE s

RECURSIVE TrimEnd(_)
TrimEnd(s) ==
    IF s # <<>> /\ s[Len(s)] \in WhiteSpace
    THEN TrimEnd(SubSeq(s, 1, Len(s) - 1))
    ELSE s

\* String.prototype.trim
Trim(s) == TrimEnd(TrimStart(s))

DigitValue(ch) == (CHOOSE i \in 1..10 : Digits[i] = ch) - 1

IsDigit(ch) == \E i \in 1..10 : Digits[i] = ch

RECURSIVE ParseDigits(_, _)
ParseDigits(s, acc) ==
    IF s # <<>> /\ IsDigit(Head(s))
    THEN ParseDigits(Tail(s), acc * 10 + DigitValue(Head(s)))
    ELSE acc

\* parseInt(s, 10) of a string that starts with a decimal digit
ParseInt(s) == ParseDigits(s, 0)

RECURSIVE FormatDigits(_)
FormatDigits(n) ==
    IF n < 10 THEN <<Digits[n + 1]>>
    ELSE Append(FormatDigits(n \div 10), Digits[(n % 10) + 1])

\* `${n}` of a non-negative integer
FormatInt(n) == FormatDigits(n)

\* s1 + " " + s2 + ... for a sequence of words
RECURSIVE Join(_)
Join(ws) ==
    IF ws = <<>> THEN <<>>
    ELSE IF Len(ws) = 1 THEN ws[1]
    ELSE ws[1] \o <<" ">> \o Join(Tail(ws))

\* the words of a transcript: its maximal runs of non-space characters
RECURSIVE WordsOf(_, _, _)
WordsOf(s, cur, acc) ==
    IF s = <<>> THEN (IF cur = <<>> THEN acc ELSE acc \cup {cur})
    ELSE IF Head(s) \in WhiteSpace
         THEN WordsOf(Tail(s), <<>>, IF cur = <<>> THEN acc ELSE acc \cup {cur})
         ELSE WordsOf(Tail(s), Append(cur, Head(s)), acc)

Words(s) == WordsOf(s, <<>>, {})

-----------------------------------------------------------------------------
(* config and the strings the model needs *)

CallSids == {"CA1", "CA2"}

VoicePath == "/api/twilio/voice"

GatherPath == "/api/twilio/gather"

StatusPath == "/api/twilio/status"

ValidPhone == <<"+","1","2","3","4","5","6","7","8","9","0","0">>

InvalidPhone == <<"1","2","3","4","5">>

RecordingUri1 == "/recordings/RE1"

RecordingUri2 == "/recordings/RE2"

-----------------------------------------------------------------------------
(* services/twilioService *)

\* faulty variant: the leading '+' is not required
MatchE164WithoutPlus(s) ==
    /\ Len(s) >= 3
    /\ Len(s) <= 16
    /\ IsDigit(s[2]) /\ s[2] # "0"
    /\ \A i \in 3..Len(s) : IsDigit(s[i])

\* /^\+[1-9]\d{1,14}$/
MatchE164(s) ==
    /\ Len(s) >= 3
    /\ Len(s) <= 16
    /\ s[1] = "+"
    /\ IsDigit(s[2]) /\ s[2] # "0"
    /\ \A i \in 3..Len(s) : IsDigit(s[i])

\* the guard `!phoneNumber || !phoneNumber.match(...)` of makeCall and sendSms
InvalidPhoneNumber(phoneNumber) ==
    \/ ~IsPresent(phoneNumber)
    \/ phoneNumber[1] = <<>>
    \/ ~MatchE164(phoneNumber[1])

\* faulty variant: the call is placed without a status callback
CallRequestWithoutStatusCallback(phoneNumber) ==
    [url |-> VoicePath, to |-> phoneNumber, statusCallback |-> "",
     statusCallbackMethod |-> "POST"]

\* the argument of client.calls.create
CallRequest(phoneNumber) ==
    [url |-> VoicePath, to |-> phoneNumber, statusCallback |-> StatusPath,
     statusCallbackMethod |-> "POST"]

\* makeCall: provider is Absent when client.calls.create rejects, else the
\* call object's sid.  requests counts the calls.create invocations.
makeCall(phoneNumber, provider) ==
    IF InvalidPhoneNumber(phoneNumber)
    THEN [ok |-> FALSE, requests |-> 0, request |-> Absent, sid |-> Absent,
          error |-> "Invalid phone number format. Must be in E.164 format."]
    ELSE IF ~IsPresent(provider)
    THEN [ok |-> FALSE, requests |-> 1, request |-> Some(CallRequest(phoneNumber[1])),
          sid |-> Absent, error |-> "provider error"]
    ELSE [ok |-> TRUE, requests |-> 1, request |-> Some(CallRequest(phoneNumber[1])),
          sid |-> provider, error |-> ""]

\* faulty variant: the destination is handed to the provider unchecked
sendSmsUnvalidated(phoneNumber, message, providerOk) ==
    IF message = ""
    THEN [ok |-> FALSE, requests |-> 0]
    ELSE [ok |-> providerOk, requests |-> 1]

\* sendSms: providerOk tells whether client.messages.create resolves.
\* requests counts the messages.create invocations.
sendSms(phoneNumber, message, providerOk) ==
    IF InvalidPhoneNumber(phoneNumber)
    THEN [ok |-> FALSE, requests |-> 0]
    ELSE IF message = ""
    THEN [ok |-> FALSE, requests |-> 0]
    ELSE [ok |-> providerOk, requests |-> 1]

VoiceUrl(retryCount) ==
    [path |-> VoicePath, retryCount |-> Some(FormatInt(retryCount))]

GatherUrl == [path |-> GatherPath, retryCount |-> Absent]

Gather(action, message) ==
    [verb |-> "Gather", input |-> "speech", action |-> action, say |-> message]

Redirect(url) == [verb |-> "Redirect", url |-> url]

Say(message) == [verb |-> "Say", say |-> message]

Hangup == [verb |-> "Hangup"]

\* generateTwiml: a Gather that speaks the message, then a Redirect
generateTwiml(message, nextRetryCount) ==
    << Gather(GatherUrl, message), Redirect(VoiceUrl(nextRetryCount)) >>

\* faulty variant: the most recent recording is taken, not the first
getRecordingUrlLatest(recordings) ==
    IF ~IsPresent(recordings) THEN Absent
    ELSE IF Len(recordings[1]) > 0 THEN Some(recordings[1][Len(recordings[1])])
    ELSE Absent

\* getRecordingUrl: recordings is Absent when client.recordings.list rejects
getRecordingUrl(recordings) ==
    IF ~IsPresent(recordings) THEN Absent
    ELSE IF Len(recordings[1]) > 0 THEN Some(recordings[1][1])
    ELSE Absent


-----------------------------------------------------------------------------
(* models/callLog: the mongoose model and the mock object *)

\* The state of models/callLog once nothing is left to happen at start-up,
\* given the object it exported: the mock when no MONGODB_URI was set, the
\* mongoose model with its connection established otherwise.
Settled(exported) ==
    IF exported = "mock"
    THEN [uri |-> FALSE, CallLog |-> "mock", readyState |-> "disconnected"]
    ELSE [uri |-> TRUE, CallLog |-> "model", readyState |-> "connected"]

\* The exported object is the mongoose model and there is no connection:
\* its operations are buffered and rejected when the buffer times out.
StoreUnavailable == CallLog = "model" /\ mongo.readyState = "disconnected"

\* `new Date()` and Date.now as a logical clock: documents are never
\* deleted, so the number of stored documents grows with time
Now(s) == Cardinality(DOMAIN s)

\* the enum of the schema's status path; it is applied by create (document
\* validation), not by findOneAndUpdate, which runs no validators
StatusEnum ==
    {"Initiated", "Ringing", "In-Progress", "Answered", "Completed", "Failed",
     "Busy", "No Answer", "Voicemail Left", "SMS Sent"}

\* a new document: the fields given to create, the schema defaults for the rest
NewDocument(data) ==
    [callSid |-> data.callSid,
     status |-> data.status,
     patientPhoneNumber |-> data.patientPhoneNumber,
     timestamp |-> data.timestamp,
     patientResponse |-> Absent,
     adherenceStatus |-> "Unknown",
     recordingUrl |-> Absent,
     notificationSent |-> FALSE]

\* a store call throws: only the mongoose model can, the mock never does
DbThrows(dbOk) == CallLog = "model" /\ ~dbOk

\* CallLog.create(data); dbOk is FALSE when the write throws.  The mock
\* only logs.  A second document with the same callSid breaks the unique
\* index and is rejected.
Create(s, data, dbOk) ==
    IF CallLog = "mock" \/ ~dbOk \/ data.callSid \in DOMAIN s THEN s
    ELSE s @@ (data.callSid :> NewDocument(data))

\* faulty variant: the update document replaces the stored one, so every
\* field it does not name falls back to its schema default
FindOneAndReplace(s, callSid, update, dbOk) ==
    IF CallLog = "mock" \/ ~dbOk \/ callSid \notin DOMAIN s THEN s
    ELSE [s EXCEPT ![callSid] =
            [f \in DOMAIN @ |->
                IF f \in DOMAIN update THEN update[f]
                ELSE IF f \in {"callSid", "patientPhoneNumber", "timestamp"} THEN @[f]
                ELSE NewDocument(@)[f]]]

\* faulty variant: the filter is dropped, every stored document is updated
UpdateMany(s, callSid, update, dbOk) ==
    IF CallLog = "mock" \/ ~dbOk \/ callSid \notin DOMAIN s THEN s
    ELSE [c \in DOMAIN s |->
            [f \in DOMAIN s[c] |-> IF f \in DOMAIN update THEN update[f] ELSE s[c][f]]]

\* CallLog.findOneAndUpdate({callSid}, update, {new: true}): no upsert, no
\* validators; the fields of update replace those of the found document.
FindOneAndUpdate(s, callSid, update, dbOk) ==
    IF CallLog = "mock" \/ ~dbOk \/ callSid \notin DOMAIN s THEN s
    ELSE [s EXCEPT ![callSid] =
            [f \in DOMAIN @ |-> IF f \in DOMAIN update THEN update[f] ELSE @[f]]]

-----------------------------------------------------------------------------
(* controllers/callController: constants *)

MEDICATION_REMINDER_MESSAGE ==
    "Hello, this is a reminder from your healthcare provider to confirm your medications for the day. Please confirm if you have taken your Aspirin, Cardivol, and Metformin today."

VOICEMAIL_MESSAGE ==
    "We called to check on your medication but couldn't reach you. Please call us back or take your medications if you haven't done so."

POSITIVE_RESPONSE_MESSAGE ==
    "Thank you for confirming you've taken your medications. Have a nice day."

NEGATIVE_RESPONSE_MESSAGE ==
    "Thank you for letting us know. Please take your medications as prescribed. Your health provider will be notified about this. Have a nice day."

PARTIAL_RESPONSE_MESSAGE ==
    "Thank you for your response. I've noted that you've taken some but not all of your medications. Please remember to take all your prescribed medications. Your health provider will be notified. Have a nice day."

UNCLEAR_RESPONSE_MESSAGE ==
    "Thank you for your response. If you haven't taken all your medications yet, please do so as prescribed. Have a nice day."

REPEAT_MESSAGE ==
    "I'm sorry, I didn't catch that. Could you please repeat if you've taken your medications today?"

CLOSING_MESSAGE ==
    "We haven't received a clear response. Your healthcare provider will be notified. Please remember to take your medications as prescribed. Thank you and have a nice day."

FALLBACK_REPLY_MESSAGE == "Thank you for your response. Have a nice day."

positiveKeywords ==
    << <<"y","e","s">>,
       <<"y","e","a","h">>,
       <<"y","e","p">>,
       <<"y","u","p">>,
       <<"t","a","k","e","n">>,
       <<"d","i","d">>,
       <<"h","a","v","e">>,
       <<"a","l","r","e","a","d","y">>,
       <<"c","o","m","p","l","e","t","e","d">> >>

negativeKeywords ==
    << <<"n","o">>,
       <<"n","o","t">>,
       <<"h","a","v","e","n","'","t">>,
       <<"d","i","d","n","'","t">>,
       <<"d","o","n","'","t">>,
       <<"f","o","r","g","o","t">>,
       <<"l","a","t","e","r">>,
       <<"m","i","s","s","e","d">> >>

medicationKeywords ==
    << <<"m","e","d","i","c","a","t","i","o","n">>,
       <<"m","e","d","i","c","i","n","e">>,
       <<"p","i","l","l">>,
       <<"d","r","u","g">>,
       <<"t","a","b","l","e","t">>,
       <<"a","s","p","i","r","i","n">>,
       <<"c","a","r","d","i","v","o","l">>,
       <<"m","e","t","f","o","r","m","i","n">> >>

\* keywords.some(keyword => responseLower.includes(keyword))
SomeIncluded(keywords, responseLower) ==
    \E i \in 1..Len(keywords) : Includes(responseLower, keywords[i])

\* faulty variant: a missing value counts as '1'
OrOne(field) ==
    IF IsPresent(field) /\ field[1] # <<>> THEN field[1] ELSE <<"1">>

\* `value || '0'` of a query or body field
OrZero(field) ==
    IF IsPresent(field) /\ field[1] # <<>> THEN field[1] ELSE <<"0">>


-----------------------------------------------------------------------------
(* What a handler leaves behind for the properties to look at: the request, *)
(* the response sent, and the calls it made to its collaborators.           *)

NoOutcome ==
    [handler |-> "none",
     req |-> [handler |-> "none"],
     responses |-> 0,           \* res.send / res.json invocations
     status |-> 0,              \* HTTP status of the response
     twiml |-> <<>>,            \* the verbs of a text/xml response
     text |-> "",               \* a plain or json response's message
     details |-> "",            \* error.message of a json error response
     callSid |-> Absent,        \* callSid of a json success response
     providerCalls |-> 0,       \* client.calls.create invocations
     callRequest |-> Absent,    \* the argument of the last calls.create
     created |-> FALSE,         \* CallLog.create was invoked
     classified |-> FALSE,      \* the keyword analysis ran
     isPositive |-> FALSE,
     isNegative |-> FALSE,
     hasMedicationContext |-> FALSE,
     adherenceStatus |-> "",    \* the handler's local adherenceStatus
     fault |-> "none",          \* where the reply-building try block threw
     storeWrites |-> 0,         \* CallLog.findOneAndUpdate invocations
     dbErrors |-> 0,            \* store calls that threw (and were caught)
     smsCalls |-> 0,            \* twilioService.sendSms invocations
     smsRequests |-> 0,         \* client.messages.create invocations
     smsOk |-> FALSE,           \* sendSms resolved
     recordingFetch |-> FALSE,  \* twilioService.getRecordingUrl was invoked
     recordingUrl |-> Absent,   \* what getRecordingUrl returned
     logs |-> <<>>,             \* callSids of the documents of a logs response
     pagination |-> [total |-> 0, page |-> 0, limit |-> 0, pages |-> 0]]

-----------------------------------------------------------------------------
(* controllers/callController: initiateCall *)

\* ErrorStatusCodes[type] || 500
ErrorStatusCodes(type) ==
    IF type = "VALIDATION_ERROR" THEN 400
    ELSE IF type = "TWILIO_ERROR" THEN 502
    ELSE IF type = "AUTHENTICATION_ERROR" THEN 401
    ELSE IF type = "AUTHORIZATION_ERROR" THEN 403
    ELSE IF type = "NOT_FOUND_ERROR" THEN 404
    ELSE 500

\* new AppError(message, type)
AppError(message, type) ==
    [message |-> message, type |-> type, statusCode |-> ErrorStatusCodes(type)]

\* faulty variant: the store call is not wrapped, its error reaches the
\* handler's outer catch
DbErrorEscapesUncaught(thrown) == thrown

\* Whether an error thrown by a store call leaves the try block around the
\* call: every `catch (dbError)` logs the error and does not rethrow.
DbErrorEscapes(thrown) == FALSE

\* The outer catch answers every error with status 500 and error.message:
\* the statusCode of an AppError is not read.
initiateCall(req, env) ==
    LET phoneNumber == req.phoneNumber
        base == [NoOutcome EXCEPT !.handler = "initiate", !.req = req,
                                  !.responses = 1]
        failed(details, n) ==
            [base EXCEPT !.status = 500, !.text = "Failed to initiate call",
                         !.details = details, !.providerCalls = n,
                         !.callRequest = IF n = 0 THEN Absent
                                         ELSE Some(CallRequest(phoneNumber[1]))]
    IN
    IF ~IsPresent(phoneNumber) \/ phoneNumber[1] = <<>>
    THEN /\ last' = failed(AppError("Phone number is required",
                                    "VALIDATION_ERROR").message, 0)
         /\ UNCHANGED <<store, freeSids>>
    ELSE IF ~MatchE164(phoneNumber[1])
    THEN /\ last' = failed(AppError("Phone number must be in E.164 format (e.g., +12345678900)",
                                    "VALIDATION_ERROR").message, 0)
         /\ UNCHANGED <<store, freeSids>>
    ELSE LET call == makeCall(phoneNumber, env.provider) IN
         IF ~call.ok
         THEN /\ last' = failed(call.error, call.requests)
              /\ UNCHANGED <<store, freeSids>>
         ELSE /\ store' = Create(store,
                                 [callSid |-> call.sid[1], status |-> "Initiated",
                                  patientPhoneNumber |-> phoneNumber[1],
                                  timestamp |-> Now(store)],
                                 env.db[1])
              /\ freeSids' = freeSids \ {call.sid[1]}
              /\ last' = [base EXCEPT !.status = IF DbErrorEscapes(DbThrows(env.db[1]))
                                                 THEN 500 ELSE 200,
                                      !.text = "Call initiated successfully",
                                      !.callSid = call.sid,
                                      !.providerCalls = call.requests,
                                      !.callRequest = call.request,
                                      !.created = TRUE,
                                      !.dbErrors = IF DbThrows(env.db[1]) THEN 1 ELSE 0]

\* faulty variant: a request the provider rejected is recorded as a session
\* with status 'Failed'
InitiateCallRecordsFailure(req, env) ==
    /\ req.handler = "initiate"
    /\ IsPresent(env.provider) => env.provider[1] \in freeSids
    /\ IF /\ IsPresent(req.phoneNumber)
          /\ MatchE164(req.phoneNumber[1])
          /\ ~IsPresent(env.provider)
          /\ freeSids # {}
       THEN /\ last' = [NoOutcome EXCEPT
                          !.handler = "initiate", !.req = req, !.responses = 1,
                          !.status = 500, !.text = "Failed to initiate call",
                          !.details = "provider error", !.providerCalls = 1,
                          !.callRequest = Some(CallRequest(req.phoneNumber[1]))]
            /\ store' = Create(store,
                               [callSid |-> CHOOSE c \in freeSids : TRUE,
                                status |-> "Failed",
                                patientPhoneNumber |-> req.phoneNumber[1],
                                timestamp |-> Now(store)],
                               TRUE)
            /\ UNCHANGED freeSids
       ELSE initiateCall(req, env)
    /\ UNCHANGED <<CallLog, mongo, smsSent>>

InitiateCall(req, env) ==
    /\ req.handler = "initiate"
    /\ IsPresent(env.provider) => env.provider[1] \in freeSids
    /\ initiateCall(req, env)
    /\ UNCHANGED <<CallLog, mongo, smsSent>>

-----------------------------------------------------------------------------
(* controllers/callController: handleVoiceCall *)

\* faulty variant: the cap is tested with > instead of >=
MaxRetriesReachedAfterTwo(retryCount) == retryCount > 2

\* `retryCount >= 2`, checked before the message is chosen
MaxRetriesReached(retryCount) == retryCount >= 2

\* faulty variant: the full reminder is repeated on every attempt
SelectMessageAlwaysReminder(retryCount) == MEDICATION_REMINDER_MESSAGE

SelectMessage(retryCount) ==
    IF retryCount = 0 THEN MEDICATION_REMINDER_MESSAGE ELSE REPEAT_MESSAGE

\* the TwiML handleVoiceCall sends for req.query.retryCount
VoiceTwiml(query) ==
    LET retryCount == ParseInt(OrZero(query)) IN
    IF MaxRetriesReached(retryCount)
    THEN << Say(CLOSING_MESSAGE), Hangup >>
    ELSE generateTwiml(SelectMessage(retryCount), retryCount + 1)

handleVoiceCall(req) ==
    last' = [NoOutcome EXCEPT !.handler = "voice", !.req = req, !.status = 200,
                              !.responses = 1,
                              !.twiml = VoiceTwiml(req.retryCount)]

HandleVoiceCall(req) ==
    /\ req.handler = "voice"
    /\ handleVoiceCall(req)
    /\ UNCHANGED <<store, CallLog, mongo, freeSids, smsSent>>


-----------------------------------------------------------------------------
(* controllers/callController: handleGather *)

\* `req.body.SpeechResult || ''`
SpeechOrEmpty(speechResult) ==
    IF IsPresent(speechResult) THEN speechResult[1] ELSE <<>>

\* faulty variant: the early return for a transcript without speech is missing
NoSpeechDetectedNever(patientResponse) == FALSE

\* faulty variant: the transcript is not trimmed before the test
NoSpeechDetectedUntrimmed(patientResponse) == patientResponse = <<>>

\* `!patientResponse || patientResponse.trim() === ''`
NoSpeechDetected(patientResponse) ==
    patientResponse = <<>> \/ Trim(patientResponse) = <<>>

\* the retryCount of the Redirect the no-speech branch sends
NextRetryCount(currentRetryCount) == currentRetryCount + 1

\* faulty variant: the final else branch is missing, so a transcript with
\* medication words but neither kind of keyword keeps the initial 'Unknown'
AdherenceAnalysisNoDefault(isPositive, isNegative, hasMedicationContext) ==
    IF isNegative /\ ~isPositive
    THEN [adherenceStatus |-> "None", say |-> NEGATIVE_RESPONSE_MESSAGE]
    ELSE IF isPositive /\ ~isNegative
    THEN [adherenceStatus |-> "Full", say |-> POSITIVE_RESPONSE_MESSAGE]
    ELSE IF isPositive /\ isNegative
    THEN [adherenceStatus |-> "Partial", say |-> PARTIAL_RESPONSE_MESSAGE]
    ELSE IF ~hasMedicationContext
    THEN [adherenceStatus |-> "Unclear", say |-> UNCLEAR_RESPONSE_MESSAGE]
    ELSE [adherenceStatus |-> "Unknown", say |-> UNCLEAR_RESPONSE_MESSAGE]

\* faulty variant: the replies of the two clear verdicts are exchanged
AdherenceAnalysisSwappedReplies(isPositive, isNegative, hasMedicationContext) ==
    IF isNegative /\ ~isPositive
    THEN [adherenceStatus |-> "None", say |-> POSITIVE_RESPONSE_MESSAGE]
    ELSE IF isPositive /\ ~isNegative
    THEN [adherenceStatus |-> "Full", say |-> NEGATIVE_RESPONSE_MESSAGE]
    ELSE IF isPositive /\ isNegative
    THEN [adherenceStatus |-> "Partial", say |-> PARTIAL_RESPONSE_MESSAGE]
    ELSE [adherenceStatus |-> "Unclear", say |-> UNCLEAR_RESPONSE_MESSAGE]

\* the if / else-if chain that picks the verdict and the reply
AdherenceAnalysis(isPositive, isNegative, hasMedicationContext) ==
    IF isNegative /\ ~isPositive
    THEN [adherenceStatus |-> "None", say |-> NEGATIVE_RESPONSE_MESSAGE]
    ELSE IF isPositive /\ ~isNegative
    THEN [adherenceStatus |-> "Full", say |-> POSITIVE_RESPONSE_MESSAGE]
    ELSE IF isPositive /\ isNegative
    THEN [adherenceStatus |-> "Partial", say |-> PARTIAL_RESPONSE_MESSAGE]
    ELSE IF ~hasMedicationContext
    THEN [adherenceStatus |-> "Unclear", say |-> UNCLEAR_RESPONSE_MESSAGE]
    ELSE [adherenceStatus |-> "Unclear", say |-> UNCLEAR_RESPONSE_MESSAGE]

\* the fields the handler writes to the call's document
GatherUpdate(patientResponse) ==
    [status |-> "Answered", patientResponse |-> Some(patientResponse)]

\* what the keyword analysis finds in a transcript
Analyze(patientResponse) ==
    LET found ==
          {<<SomeIncluded(positiveKeywords, responseLower),
             SomeIncluded(negativeKeywords, responseLower),
             SomeIncluded(medicationKeywords, responseLower)>> :
                responseLower \in {ToLowerCase(patientResponse)}}
    IN  CHOOSE flags \in found : TRUE

\* Where the try block that builds the reply may throw: nowhere, at the
\* twiml.say / logger.info of the chosen branch (before adherenceStatus is
\* assigned), or at twiml.hangup / twiml.toString (after it).
ReplyFaults == {"none", "say", "hangup"}

\* the TwiML sent by the inner catch
FallbackTwiml == << Say(FALLBACK_REPLY_MESSAGE), Hangup >>

\* faulty variant: no inner catch, the outer catch sends a plain 500
GatherReplyUncaught(analysis, fault) ==
    IF fault = "none" THEN << Say(analysis.say), Hangup >> ELSE <<>>

\* the TwiML handleGather sends for a transcript with speech
GatherReply(analysis, fault) ==
    IF fault = "none" THEN << Say(analysis.say), Hangup >> ELSE FallbackTwiml

handleGather(req, env) ==
    \E patientResponse \in {SpeechOrEmpty(req.SpeechResult)} :
    LET callSid == req.CallSid
        base == [NoOutcome EXCEPT !.handler = "gather", !.req = req, !.status = 200,
                                  !.responses = 1]
    IN
    IF NoSpeechDetected(patientResponse)
    THEN LET currentRetryCount == ParseInt(OrZero(req.retryCount)) IN
         /\ last' = [base EXCEPT
                       !.twiml = << Redirect(VoiceUrl(NextRetryCount(currentRetryCount))) >>]
         /\ UNCHANGED store
    ELSE \E flags \in {Analyze(patientResponse)} :
         \E analysis \in {AdherenceAnalysis(flags[1], flags[2], flags[3])} :
         /\ store' = FindOneAndUpdate(store, callSid, GatherUpdate(patientResponse),
                                      env.db[1])
         /\ last' = [base EXCEPT
                       !.status = IF DbErrorEscapes(DbThrows(env.db[1]))
                                  THEN 500 ELSE 200,
                       !.twiml = GatherReply(analysis, env.replyFault),
                       !.fault = env.replyFault,
                       !.classified = TRUE,
                       !.isPositive = flags[1],
                       !.isNegative = flags[2],
                       !.hasMedicationContext = flags[3],
                       !.adherenceStatus = IF env.replyFault = "say" THEN "Unknown"
                                           ELSE analysis.adherenceStatus,
                       !.storeWrites = 1,
                       !.dbErrors = IF DbThrows(env.db[1]) THEN 1 ELSE 0]

\* faulty variant: the gather handler also sends the fallback SMS
HandleGatherSendsSms(req, env) ==
    /\ req.handler = "gather"
    /\ smsSent[req.CallSid] < MaxSms
    /\ handleGather(req, env)
    /\ smsSent' = [smsSent EXCEPT ![req.CallSid] = @ + 1]
    /\ UNCHANGED <<CallLog, mongo, freeSids>>

HandleGather(req, env) ==
    /\ req.handler = "gather"
    /\ handleGather(req, env)
    /\ UNCHANGED <<CallLog, mongo, freeSids, smsSent>>

-----------------------------------------------------------------------------
(* controllers/callController: handleStatusCallback *)

FallbackStatuses == {"no-answer", "busy", "failed", "canceled", "completed"}

\* faulty variant: a call of exactly 5 seconds counts as too short
VeryShortInclusive(callDuration) == callDuration <= 5

\* `callDuration < 5`
VeryShort(callDuration) == callDuration < 5

\* faulty variant: a completed call needs both signs of a missed call
SendsFallbackBothRequired(CallStatus, answeredByHuman, callDuration) ==
    /\ CallStatus \in FallbackStatuses
    /\ \/ CallStatus = "completed" /\ (~answeredByHuman /\ VeryShort(callDuration))
       \/ CallStatus # "completed"

\* the two branches that call twilioService.sendSms
SendsFallback(CallStatus, answeredByHuman, callDuration) ==
    /\ CallStatus \in FallbackStatuses
    /\ \/ CallStatus = "completed" /\ (~answeredByHuman \/ VeryShort(callDuration))
       \/ CallStatus # "completed"

\* faulty variant: the guard of the recording lookup is inverted
FetchesRecordingUnlessCompleted(CallStatus) == CallStatus # "completed"

\* `CallStatus === 'completed'`, the guard of the recording lookup
FetchesRecording(CallStatus) == CallStatus = "completed"

\* faulty variant: the provider's status is translated to the schema's
\* vocabulary, 'in-progress' becoming 'Answered'
StatusUpdateTranslated(CallStatus) ==
    [status |-> IF CallStatus = "in-progress" THEN "Answered" ELSE CallStatus]

\* `{ status: CallStatus }`, the update of the first store call
StatusUpdate(CallStatus) == [status |-> CallStatus]

\* faulty variant: storing the recording URL also marks the call completed
RecordingUpdateCompletes(recordingUrl) ==
    [recordingUrl |-> recordingUrl, status |-> "Completed"]

\* `{ recordingUrl }`, the update of the last store call
RecordingUpdate(recordingUrl) == [recordingUrl |-> recordingUrl]

\* The handler's steps in the order of the code; each \E binds the value
\* one statement computes.
handleStatusCallback(req, env) ==
    LET CallSid == req.CallSid
        CallStatus == req.CallStatus
        answeredByHuman == req.AnsweredBy = Some("human")
        fetch == FetchesRecording(CallStatus)
    IN
    \E s1 \in {FindOneAndUpdate(store, CallSid, StatusUpdate(CallStatus), env.db[1])} :
    \E callDuration \in {ParseInt(OrZero(req.CallDuration))} :
    \E fallback \in {SendsFallback(CallStatus, answeredByHuman, callDuration)} :
    \E sms \in {IF fallback THEN sendSms(req.To, VOICEMAIL_MESSAGE, env.smsOk)
                ELSE [ok |-> FALSE, requests |-> 0]} :
    \E s2 \in {IF fallback /\ sms.ok
               THEN FindOneAndUpdate(s1, CallSid, [status |-> "SMS Sent"], env.db[2])
               ELSE s1} :
    \E recordingUrl \in {IF fetch THEN getRecordingUrl(env.recordings) ELSE Absent} :
    /\ store' = IF IsPresent(recordingUrl)
                THEN FindOneAndUpdate(s2, CallSid, RecordingUpdate(recordingUrl),
                                      env.db[3])
                ELSE s2
    /\ smsSent' = IF sms.ok THEN [smsSent EXCEPT ![CallSid] = @ + 1] ELSE smsSent
    /\ last' = [NoOutcome EXCEPT
                  !.handler = "status", !.req = req, !.responses = 1,
                  !.status = IF DbErrorEscapes(DbThrows(env.db[1])) THEN 500 ELSE 200,
                  !.text = "Status received",
                  !.storeWrites = 1 + (IF fallback /\ sms.ok THEN 1 ELSE 0)
                                    + (IF IsPresent(recordingUrl) THEN 1 ELSE 0),
                  !.dbErrors = (IF DbThrows(env.db[1]) THEN 1 ELSE 0)
                      + (IF fallback /\ sms.ok /\ DbThrows(env.db[2]) THEN 1 ELSE 0)
                      + (IF IsPresent(recordingUrl) /\ DbThrows(env.db[3]) THEN 1 ELSE 0),
                  !.smsCalls = IF fallback THEN 1 ELSE 0,
                  !.smsRequests = sms.requests,
                  !.smsOk = sms.ok,
                  !.recordingFetch = fetch,
                  !.recordingUrl = recordingUrl]

HandleStatusCallback(req, env) ==
    /\ req.handler = "status"
    /\ smsSent[req.CallSid] < MaxSms
    /\ handleStatusCallback(req, env)
    /\ UNCHANGED <<CallLog, mongo, freeSids>>


-----------------------------------------------------------------------------
(* controllers/callController: getCallLogs *)

\* `parseInt(value) || fallback`: NaN and 0 give the fallback
ParseIntOr(field, fallback) ==
    LET n == IF IsPresent(field) THEN ParseInt(field[1]) ELSE 0 IN
    IF n = 0 THEN fallback ELSE n

\* .sort({timestamp: -1}): the callSids of the documents, newest first
RECURSIVE SortNewestFirst(_, _)
SortNewestFirst(s, sids) ==
    IF sids = {} THEN <<>>
    ELSE LET newest == CHOOSE c \in sids :
                          \A other \in sids : s[other].timestamp <= s[c].timestamp
         IN  <<newest>> \o SortNewestFirst(s, sids \ {newest})

\* .skip(skip).limit(limit)
SkipLimit(docs, skip, limit) ==
    SubSeq(docs, skip + 1, IF skip + limit < Len(docs) THEN skip + limit ELSE Len(docs))

\* Math.ceil(total / limit) for limit >= 1
CeilDiv(total, limit) == (total + limit - 1) \div limit

\* mockCallLog.find is an async function: it returns a promise, which has
\* no sort method, so `CallLog.find().sort(...)` throws a TypeError.
FindSortThrows == CallLog = "mock"

\* Any error (the TypeError of the mock, a rejected find or countDocuments)
\* reaches the catch, which answers 500.
getCallLogs(req, env) ==
    LET page == ParseIntOr(req.page, 1)
        limit == ParseIntOr(req.limit, 10)
        skip == (page - 1) * limit
        base == [NoOutcome EXCEPT !.handler = "logs", !.req = req, !.responses = 1]
        total == Cardinality(DOMAIN store)
    IN
    IF FindSortThrows \/ DbThrows(env.db[1]) \/ DbThrows(env.db[2])
    THEN last' = [base EXCEPT !.status = 500, !.text = "Failed to retrieve call logs",
                              !.dbErrors = IF FindSortThrows THEN 0 ELSE 1]
    ELSE last' = [base EXCEPT
                    !.status = 200,
                    !.logs = SkipLimit(SortNewestFirst(store, DOMAIN store), skip, limit),
                    !.pagination = [total |-> total, page |-> page, limit |-> limit,
                                    pages |-> CeilDiv(total, limit)]]

GetCallLogs(req, env) ==
    /\ req.handler = "logs"
    /\ getCallLogs(req, env)
    /\ UNCHANGED <<store, CallLog, mongo, freeSids, smsSent>>

-----------------------------------------------------------------------------
(* The requests the routes accept and what the collaborators may answer *)

RetryParams == {Absent} \cup {Some(FormatInt(n)) : n \in 0..MaxRetryParam}

SpokenYes ==
    <<"y","e","s"," ","I"," ","t","o","o","k"," ","m","y"," ","p","i","l","l","s">>

SpokenNo == <<"N","o">>

SpokenHavent == <<"I"," ","h","a","v","e","n","'","t">>

SpokenUm == <<"u","m">>

\* SpeechResult values: missing, empty, blank, and spoken words
SpeechResults ==
    {Absent, Some(<<>>), Some(<<" "," ">>),
     Some(SpokenYes), Some(SpokenNo), Some(SpokenHavent), Some(SpokenUm)}

CallStatuses ==
    {"queued", "ringing", "in-progress", "completed",
     "busy", "failed", "no-answer", "canceled"}

AnsweredByValues == {Absent, Some("human"), Some("machine_start")}

CallDurations == {Absent, Some(<<"4">>), Some(<<"5">>), Some(<<"1","0">>)}

PhoneNumbers == {Absent, Some(ValidPhone), Some(InvalidPhone)}

InitiateRequests ==
    {[handler |-> "initiate", phoneNumber |-> p] : p \in PhoneNumbers}

VoiceRequests(sids) ==
    {[handler |-> "voice", CallSid |-> c, retryCount |-> r] :
        c \in sids, r \in RetryParams}

GatherRequests(sids, speech) ==
    {[handler |-> "gather", CallSid |-> c, SpeechResult |-> t, retryCount |-> r] :
        c \in sids, t \in speech, r \in RetryParams}

StatusRequests(sids, durations) ==
    {[handler |-> "status", CallSid |-> c, CallStatus |-> st, To |-> to,
      AnsweredBy |-> a, CallDuration |-> d] :
        c \in sids, st \in CallStatuses, to \in {Some(ValidPhone), Some(InvalidPhone)},
        a \in AnsweredByValues, d \in durations}

RecordingLists ==
    {Absent, Some(<<>>), Some(<<RecordingUri1>>), Some(<<RecordingUri2, RecordingUri1>>)}

\* whether each of the (at most three) store writes of a handler succeeds
DbOutcomes == {<<d1, d2, d3>> : d1 \in BOOLEAN, d2 \in BOOLEAN, d3 \in BOOLEAN}

\* what the provider and the store may do while req is handled; a choice
\* the handler cannot observe on the path of req is left at one value
Envs(req, sids, dbs, recs, faults) ==
    LET st == req.handler = "status"
        fb == st /\ SendsFallback(req.CallStatus, req.AnsweredBy = Some("human"),
                                  ParseInt(OrZero(req.CallDuration)))
        rec == st /\ FetchesRecording(req.CallStatus)
        sp == /\ req.handler = "gather"
              /\ ~NoSpeechDetected(SpeechOrEmpty(req.SpeechResult))
    IN
    {[provider |-> pr, db |-> <<db[1], IF fb \/ req.handler = "logs" THEN db[2] ELSE TRUE,
                                IF rec THEN db[3] ELSE TRUE>>,
      smsOk |-> ok, recordings |-> rl, replyFault |-> rf] :
        pr \in IF req.handler = "initiate"
               THEN {Absent} \cup {Some(c) : c \in sids} ELSE {Absent},
        db \in IF req.handler = "voice" THEN {<<TRUE, TRUE, TRUE>>}
               ELSE IF StoreUnavailable THEN {<<FALSE, FALSE, FALSE>>}
               ELSE dbs,
        ok \in IF fb THEN BOOLEAN ELSE {TRUE},
        rl \in IF rec THEN recs ELSE {Absent},
        rf \in IF sp THEN faults ELSE {"none"}}

-----------------------------------------------------------------------------
(* The server: any sequence of requests for one call identifier *)

IdleLeg ==
    [pc |-> "idle", twiml |-> <<>>, prompts |-> 0, silent |-> TRUE,
     capped |-> FALSE, promptsAfterCap |-> 0]

NoDocuments == [c \in {} |-> NoOutcome]

\* no handler is between two of its awaited calls
NoHandlers == [gather |-> Absent, status |-> Absent]

Init ==
    /\ store = NoDocuments
    /\ CallLog \in {"model", "mock"}
    /\ mongo = Settled(CallLog)
    /\ freeSids = {"CA1"}
    /\ smsSent = [c \in CallSids |-> 0]
    /\ last = NoOutcome
    /\ pending = Absent
    /\ applied = 0
    /\ leg = IdleLeg
    /\ inflight = NoHandlers

\* the requests and collaborator answers the server is explored with
ServerSpeech == {Absent, Some(<<" "," ">>), Some(SpokenYes), Some(SpokenNo)}

ServerRetryParams == {Absent, Some(<<"1">>)}

ServerVoiceRequests ==
    {[handler |-> "voice", CallSid |-> "CA1", retryCount |-> r] : r \in RetryParams}

ServerGatherRequests ==
    {[handler |-> "gather", CallSid |-> "CA1", SpeechResult |-> t, retryCount |-> r] :
        t \in ServerSpeech, r \in ServerRetryParams}

\* answered by a person for 5 seconds, or picked up by a machine
ServerAnswers ==
    {<<Some("human"), Some(<<"5">>)>>, <<Some("machine_start"), Some(<<"5">>)>>}

ServerStatusRequests ==
    {[handler |-> "status", CallSid |-> "CA1", CallStatus |-> st,
      To |-> Some(ValidPhone), AnsweredBy |-> a[1], CallDuration |-> a[2]] :
        st \in CallStatuses, a \in ServerAnswers}

ServerDb == {<<TRUE, TRUE, TRUE>>, <<FALSE, FALSE, FALSE>>}

ServerRecordings == {Absent, Some(<<RecordingUri1>>)}

\* the server is explored with a reply-building step that does not throw
ServerFaults == {"none"}

ServerEnvs(req) == Envs(req, freeSids, ServerDb, ServerRecordings, ServerFaults)

Initiate ==
    \E req \in InitiateRequests : \E env \in ServerEnvs(req) :
        InitiateCall(req, env) /\ UNCHANGED <<pending, applied, leg, inflight>>

Voice ==
    \E req \in ServerVoiceRequests :
        HandleVoiceCall(req) /\ UNCHANGED <<pending, applied, leg, inflight>>

GatherResult ==
    \E req \in ServerGatherRequests : \E env \in ServerEnvs(req) :
        HandleGather(req, env) /\ UNCHANGED <<pending, applied, leg, inflight>>

StatusCallback ==
    \E req \in ServerStatusRequests : \E env \in ServerEnvs(req) :
        HandleStatusCallback(req, env) /\ UNCHANGED <<pending, applied, leg, inflight>>

Next == Initiate \/ Voice \/ GatherResult \/ StatusCallback

Spec == Init /\ [][Next]_vars

TypeOK ==
    /\ DOMAIN store \subseteq CallSids
    /\ CallLog \in {"model", "mock"}
    /\ mongo.CallLog \in {"model", "mock"}
    /\ mongo.readyState \in {"disconnected", "connecting", "connected"}
    /\ freeSids \subseteq CallSids
    /\ \A c \in CallSids : smsSent[c] \in 0..MaxSms
    /\ last.handler \in {"none", "initiate", "voice", "gather", "status", "logs"}
    /\ applied \in 0..(MaxReplay + MaxEvents)


-----------------------------------------------------------------------------
(* Start-up: models/callLog is loaded, exports its CallLog, and the        *)
(* connection it asked for is established or fails while the server        *)
(* already handles requests.                                               *)

\* The module body has run.  With MONGODB_URI set, CallLog is the mongoose
\* model and mongoose.connect is under way; without it, CallLog is the
\* mock.  `module.exports = CallLog` has handed that object to the
\* controller, which keeps it in its own constant.
Loaded(uri) ==
    IF uri THEN [uri |-> TRUE, CallLog |-> "model", readyState |-> "connecting"]
    ELSE [uri |-> FALSE, CallLog |-> "mock", readyState |-> "disconnected"]

StartupInit ==
    /\ \E uri \in BOOLEAN : mongo = Loaded(uri)
    /\ CallLog = mongo.CallLog
    /\ store = NoDocuments
    /\ freeSids = {"CA1"}
    /\ smsSent = [c \in CallSids |-> 0]
    /\ last = NoOutcome
    /\ pending = Absent
    /\ applied = 0
    /\ leg = IdleLeg
    /\ inflight = NoHandlers

\* .then(() => console.log('Connected to MongoDB'))
ConnectResolves ==
    /\ mongo.readyState = "connecting"
    /\ mongo' = [mongo EXCEPT !.readyState = "connected"]
    /\ UNCHANGED <<store, CallLog, freeSids, smsSent, last, pending, applied, leg,
                   inflight>>

\* .catch(err => { ...; CallLog = mockCallLog; }): the assignment is to the
\* variable of models/callLog; the object exported before is not replaced
ConnectRejects ==
    /\ mongo.readyState = "connecting"
    /\ mongo' = [mongo EXCEPT !.readyState = "disconnected", !.CallLog = "mock"]
    /\ UNCHANGED <<store, CallLog, freeSids, smsSent, last, pending, applied, leg,
                   inflight>>

LogsQueries == {Absent, Some(<<"0">>), Some(<<"1">>), Some(<<"2">>)}

LogsRequests ==
    {[handler |-> "logs", page |-> pg, limit |-> lim] :
        pg \in LogsQueries, lim \in LogsQueries}

Logs ==
    \E req \in LogsRequests : \E env \in ServerEnvs(req) :
        GetCallLogs(req, env) /\ UNCHANGED <<pending, applied, leg, inflight>>

StartupGatherRequests ==
    {[handler |-> "gather", CallSid |-> "CA1", SpeechResult |-> Some(SpokenNo),
      retryCount |-> Absent]}

StartupGather ==
    \E req \in StartupGatherRequests : \E env \in ServerEnvs(req) :
        HandleGather(req, env) /\ UNCHANGED <<pending, applied, leg, inflight>>

StartupNext ==
    \/ ConnectResolves
    \/ ConnectRejects
    \/ Initiate
    \/ StartupGather
    \/ Logs

StartupSpec == StartupInit /\ [][StartupNext]_vars

-----------------------------------------------------------------------------
(* One request applied to a session that was just created, or to none, and *)
(* then applied again: the handlers as functions of their request.         *)

InitiatedDocument ==
    "CA1" :> NewDocument([callSid |-> "CA1", status |-> "Initiated",
                          patientPhoneNumber |-> ValidPhone,
                          timestamp |-> Now(NoDocuments)])

ReplayRequests ==
    InitiateRequests \cup VoiceRequests({"CA1"})
        \cup GatherRequests({"CA1"}, SpeechResults)
        \cup StatusRequests({"CA1"}, CallDurations)

\* the state before the request: nothing happened yet, or initiateCall has
\* placed call CA1 and (with the mongoose model) stored its document
BeforeRequest(requests) ==
    /\ CallLog \in {"model", "mock"}
    /\ mongo = Settled(CallLog)
    /\ \/ store = NoDocuments /\ freeSids = {"CA1", "CA2"}
       \/ /\ store = IF CallLog = "model" THEN InitiatedDocument ELSE NoDocuments
          /\ freeSids = {"CA2"}
    /\ smsSent = [c \in CallSids |-> 0]
    /\ last = NoOutcome
    /\ pending \in {Some(req) : req \in requests}
    /\ applied = 0
    /\ leg = IdleLeg
    /\ inflight = NoHandlers

ReplayInit == BeforeRequest(ReplayRequests)

ReplayEnvs(req) == Envs(req, freeSids, DbOutcomes, RecordingLists, ReplyFaults)

Replays ==
    /\ IsPresent(pending)
    /\ applied < MaxReplay
    /\ applied' = applied + 1
    /\ UNCHANGED <<pending, leg, inflight>>

ReplayInitiate ==
    Replays /\ \E env \in ReplayEnvs(pending[1]) : InitiateCall(pending[1], env)

ReplayVoice == Replays /\ HandleVoiceCall(pending[1])

ReplayGather ==
    Replays /\ \E env \in ReplayEnvs(pending[1]) : HandleGather(pending[1], env)

ReplayStatus ==
    Replays /\ \E env \in ReplayEnvs(pending[1]) : HandleStatusCallback(pending[1], env)

ReplayNext == ReplayInitiate \/ ReplayVoice \/ ReplayGather \/ ReplayStatus

ReplaySpec == ReplayInit /\ [][ReplayNext]_vars

-----------------------------------------------------------------------------
(* The keyword analysis applied to every transcript of at most MaxWords    *)
(* words of the three keyword lists and a few other words.                 *)

OtherWords == {<<"u","m">>, <<"I">>, <<"Y","e","s">>}

KeywordSet(keywords) == {keywords[i] : i \in 1..Len(keywords)}

Vocabulary ==
    KeywordSet(positiveKeywords) \cup KeywordSet(negativeKeywords)
        \cup KeywordSet(medicationKeywords) \cup OtherWords

Transcripts ==
    UNION {{Join(ws) : ws \in [1..n -> Vocabulary]} : n \in 1..MaxWords}

ClassifyRequests ==
    {[handler |-> "gather", CallSid |-> "CA1", SpeechResult |-> Some(t),
      retryCount |-> Absent] : t \in Transcripts}

ClassifyInit == BeforeRequest(ClassifyRequests)

\* the analysis of a transcript whose reply is built without a fault
ClassifyEnvs(req) == Envs(req, freeSids, DbOutcomes, RecordingLists, {"none"})

ClassifyNext ==
    Replays /\ \E env \in ClassifyEnvs(pending[1]) : HandleGather(pending[1], env)

ClassifySpec == ClassifyInit /\ [][ClassifyNext]_vars


-----------------------------------------------------------------------------
(* One call leg driven by the provider: it requests the voice URL given to *)
(* calls.create, executes the verbs it is sent in order, and requests only *)
(* the action and redirect URLs found in them.                             *)

HasGather(twiml) == \E i \in 1..Len(twiml) : twiml[i].verb = "Gather"

\* the leg after handleVoiceCall answered the request for query
AfterVoice(l, query, twiml) ==
    LET capped == l.capped \/ ParseInt(OrZero(query)) >= 2 IN
    [l EXCEPT !.pc = "running",
              !.twiml = twiml,
              !.prompts = @ + (IF HasGather(twiml) THEN 1 ELSE 0),
              !.capped = capped,
              !.promptsAfterCap = @ + (IF capped /\ HasGather(twiml) THEN 1 ELSE 0)]

LegVoiceRequest(query) ==
    [handler |-> "voice", CallSid |-> "CA1", retryCount |-> query]

FlowInitiate ==
    /\ leg.pc = "idle"
    /\ \E req \in InitiateRequests : \E env \in ServerEnvs(req) :
          InitiateCall(req, env)
    /\ UNCHANGED <<pending, applied, leg, inflight>>

\* the call connects: the provider requests the url of calls.create
ProviderConnects ==
    /\ leg.pc = "idle"
    /\ "CA1" \notin freeSids
    /\ HandleVoiceCall(LegVoiceRequest(Absent))
    /\ leg' = AfterVoice(leg, Absent, last'.twiml)
    /\ UNCHANGED <<pending, applied, inflight>>

\* the Gather ends with a speech result: the provider posts it to the action
ProviderPostsSpeech ==
    /\ leg.pc = "running"
    /\ leg.twiml # <<>>
    /\ Head(leg.twiml).verb = "Gather"
    /\ \E t \in SpeechResults :
          LET req == [handler |-> "gather", CallSid |-> "CA1", SpeechResult |-> t,
                      retryCount |-> Head(leg.twiml).action.retryCount]
          IN  /\ \E env \in ServerEnvs(req) : HandleGather(req, env)
              /\ leg' = [leg EXCEPT !.twiml = last'.twiml,
                                    !.silent = @ /\ NoSpeechDetected(SpeechOrEmpty(t))]
    /\ UNCHANGED <<pending, applied, inflight>>

\* the Gather times out with no input: the provider goes on to the next verb
ProviderHearsNothing ==
    /\ leg.pc = "running"
    /\ leg.twiml # <<>>
    /\ Head(leg.twiml).verb = "Gather"
    /\ leg' = [leg EXCEPT !.twiml = Tail(@)]
    /\ UNCHANGED <<store, CallLog, mongo, freeSids, smsSent, last, pending, applied, inflight>>

ProviderFollowsRedirect ==
    /\ leg.pc = "running"
    /\ leg.twiml # <<>>
    /\ Head(leg.twiml).verb = "Redirect"
    /\ Head(leg.twiml).url.path = VoicePath
    /\ leg.prompts < MaxPrompts
    /\ LET query == Head(leg.twiml).url.retryCount IN
          /\ HandleVoiceCall(LegVoiceRequest(query))
          /\ leg' = AfterVoice(leg, query, last'.twiml)
    /\ UNCHANGED <<pending, applied, inflight>>

ProviderSpeaks ==
    /\ leg.pc = "running"
    /\ leg.twiml # <<>>
    /\ Head(leg.twiml).verb = "Say"
    /\ leg' = [leg EXCEPT !.twiml = Tail(@)]
    /\ UNCHANGED <<store, CallLog, mongo, freeSids, smsSent, last, pending, applied, inflight>>

\* a Hangup verb, or no verb left, ends the call
ProviderHangsUp ==
    /\ leg.pc = "running"
    /\ leg.twiml = <<>> \/ Head(leg.twiml).verb = "Hangup"
    /\ leg' = [leg EXCEPT !.pc = "ended", !.twiml = <<>>]
    /\ UNCHANGED <<store, CallLog, mongo, freeSids, smsSent, last, pending, applied, inflight>>

FlowNext ==
    \/ FlowInitiate
    \/ ProviderConnects
    \/ ProviderPostsSpeech
    \/ ProviderHearsNothing
    \/ ProviderFollowsRedirect
    \/ ProviderSpeaks
    \/ ProviderHangsUp

FlowSpec == Init /\ [][FlowNext]_vars


-----------------------------------------------------------------------------
(* The phone number test applied to bounded strings: call-initiate with    *)
(* the string as phoneNumber, and a busy status callback with it as To.    *)

\* n characters: first, then fill repeated
Run(first, fill, n) ==
    [i \in 1..n |-> IF i = 1 THEN first ELSE fill]

\* digit strings of 0..MaxDigits digits, with and without the leading '+',
\* and the same strings with a character that is no digit in them
PhoneCandidates ==
    LET digits == {Run(d, f, n) : d \in {"0", "1", "9"}, f \in {"0", "5"},
                                  n \in 0..MaxDigits}
        plus == {<<"+">> \o ds : ds \in digits}
    IN  digits \cup plus
            \cup {s \o <<"a">> : s \in plus}
            \cup {<<"+">> \o s : s \in plus}
            \cup {<<" ">> \o s : s \in plus}

ValidateRequests ==
    {[handler |-> "initiate", phoneNumber |-> Some(p)] : p \in PhoneCandidates}
        \cup {[handler |-> "initiate", phoneNumber |-> Absent]}
        \cup {[handler |-> "status", CallSid |-> "CA1", CallStatus |-> "busy",
               To |-> Some(p), AnsweredBy |-> Absent, CallDuration |-> Absent] :
                 p \in PhoneCandidates}

ValidateInit == BeforeRequest(ValidateRequests)

ValidateNext == ReplayInitiate \/ ReplayStatus

ValidateSpec == ValidateInit /\ [][ValidateNext]_vars

-----------------------------------------------------------------------------
(* The handlers step by step.  A handler runs until its next awaited call  *)
(* (a store update, sendSms, getRecordingUrl); between two awaited calls   *)
(* of one handler the steps of another handler may run.  Two calls have    *)
(* been placed and stored; a gather result and a status callback, for the  *)
(* same call or for different calls, are handled at the same time.         *)

InterleaveDocuments ==
    [c \in CallSids |->
        NewDocument([callSid |-> c, status |-> "Initiated",
                     patientPhoneNumber |-> ValidPhone,
                     timestamp |-> IF c = "CA1" THEN 0 ELSE 1])]

InterleaveInit ==
    /\ store = InterleaveDocuments
    /\ CallLog = "model"
    /\ mongo = Settled(CallLog)
    /\ freeSids = {}
    /\ smsSent = [c \in CallSids |-> 0]
    /\ last = NoOutcome
    /\ pending = Absent
    /\ applied = 0
    /\ leg = IdleLeg
    /\ inflight = NoHandlers

InterleaveGatherRequests ==
    {[handler |-> "gather", CallSid |-> c, SpeechResult |-> Some(SpokenNo),
      retryCount |-> Absent] : c \in CallSids}

InterleaveStatusRequests ==
    {[handler |-> "status", CallSid |-> c, CallStatus |-> st,
      To |-> Some(ValidPhone), AnsweredBy |-> Some("human"),
      CallDuration |-> Some(<<"5">>)] :
        c \in CallSids, st \in {"ringing", "completed", "busy"}}

InterleaveEnvs(req) == Envs(req, {}, ServerDb, RecordingLists, ServerFaults)

\* a handler is entered; it runs to its first awaited store call
Received(req) ==
    /\ applied < MaxEvents
    /\ applied' = applied + 1
    /\ UNCHANGED <<store, CallLog, mongo, freeSids, smsSent, last, pending, leg>>

GatherReceived ==
    /\ ~IsPresent(inflight.gather)
    /\ \E req \in InterleaveGatherRequests : \E env \in InterleaveEnvs(req) :
          /\ Received(req)
          /\ inflight' = [inflight EXCEPT
                            !.gather = Some([req |-> req, env |-> env, pc |-> "update"])]

\* await CallLog.findOneAndUpdate({callSid}, {status: 'Answered', patientResponse})
GatherStoreUpdate ==
    /\ IsPresent(inflight.gather)
    /\ LET h == inflight.gather[1] IN
          /\ h.pc = "update"
          /\ store' = FindOneAndUpdate(store, h.req.CallSid,
                                       GatherUpdate(SpeechOrEmpty(h.req.SpeechResult)),
                                       h.env.db[1])
          /\ inflight' = [inflight EXCEPT !.gather = Some([h EXCEPT !.pc = "reply"])]
    /\ UNCHANGED <<CallLog, mongo, freeSids, smsSent, last, pending, applied, leg>>

\* the analysis, and res.send(twiml.toString())
GatherResponds ==
    /\ IsPresent(inflight.gather)
    /\ LET h == inflight.gather[1] IN
          /\ h.pc = "reply"
          /\ \E flags \in {Analyze(SpeechOrEmpty(h.req.SpeechResult))} :
                last' = [NoOutcome EXCEPT
                           !.handler = "gather", !.req = h.req, !.responses = 1,
                           !.status = 200,
                           !.twiml = GatherReply(AdherenceAnalysis(flags[1], flags[2],
                                                                   flags[3]),
                                                 h.env.replyFault)]
          /\ inflight' = [inflight EXCEPT !.gather = Absent]
    /\ UNCHANGED <<store, CallLog, mongo, freeSids, smsSent, pending, applied, leg>>

\* where handleStatusCallback goes on after the step at pc
StatusContinues(h, pc) ==
    LET fallback == SendsFallback(h.req.CallStatus, h.req.AnsweredBy = Some("human"),
                                  ParseInt(OrZero(h.req.CallDuration)))
        fetch == FetchesRecording(h.req.CallStatus)
    IN
    IF pc = "update" /\ fallback THEN "sms"
    ELSE IF pc \in {"update", "sms", "smsSent"} /\ fetch THEN "recording"
    ELSE "respond"

StatusReceived ==
    /\ ~IsPresent(inflight.status)
    /\ \E req \in InterleaveStatusRequests : \E env \in InterleaveEnvs(req) :
          /\ smsSent[req.CallSid] < MaxSms
          /\ Received(req)
          /\ inflight' = [inflight EXCEPT
                            !.status = Some([req |-> req, env |-> env, pc |-> "update",
                                             recordingUrl |-> Absent])]

\* await CallLog.findOneAndUpdate({callSid: CallSid}, {status: CallStatus})
StatusStoreUpdate ==
    /\ IsPresent(inflight.status)
    /\ LET h == inflight.status[1] IN
          /\ h.pc = "update"
          /\ store' = FindOneAndUpdate(store, h.req.CallSid,
                                       StatusUpdate(h.req.CallStatus), h.env.db[1])
          /\ inflight' = [inflight EXCEPT
                            !.status = Some([h EXCEPT !.pc = StatusContinues(h, "update")])]
    /\ UNCHANGED <<CallLog, mongo, freeSids, smsSent, last, pending, applied, leg>>

\* faulty variant: the 'SMS Sent' write follows the send even when it failed
StatusSendsSmsThenWrites ==
    /\ IsPresent(inflight.status)
    /\ LET h == inflight.status[1]
           sms == sendSms(h.req.To, VOICEMAIL_MESSAGE, h.env.smsOk)
       IN
          /\ h.pc = "sms"
          /\ smsSent' = IF sms.ok THEN [smsSent EXCEPT ![h.req.CallSid] = @ + 1]
                        ELSE smsSent
          /\ inflight' = [inflight EXCEPT !.status = Some([h EXCEPT !.pc = "smsSent"])]
    /\ UNCHANGED <<store, CallLog, mongo, freeSids, last, pending, applied, leg>>

\* await twilioService.sendSms(To, VOICEMAIL_MESSAGE)
StatusSendsSms ==
    /\ IsPresent(inflight.status)
    /\ LET h == inflight.status[1]
           sms == sendSms(h.req.To, VOICEMAIL_MESSAGE, h.env.smsOk)
       IN
          /\ h.pc = "sms"
          /\ smsSent' = IF sms.ok THEN [smsSent EXCEPT ![h.req.CallSid] = @ + 1]
                        ELSE smsSent
          /\ inflight' = [inflight EXCEPT
                            !.status = Some([h EXCEPT !.pc =
                                IF sms.ok THEN "smsSent" ELSE StatusContinues(h, "sms")])]
    /\ UNCHANGED <<store, CallLog, mongo, freeSids, last, pending, applied, leg>>

\* await CallLog.findOneAndUpdate({callSid: CallSid}, {status: 'SMS Sent'})
StatusStoreSmsSent ==
    /\ IsPresent(inflight.status)
    /\ LET h == inflight.status[1] IN
          /\ h.pc = "smsSent"
          /\ store' = FindOneAndUpdate(store, h.req.CallSid, [status |-> "SMS Sent"],
                                       h.env.db[2])
          /\ inflight' = [inflight EXCEPT
                            !.status = Some([h EXCEPT !.pc = StatusContinues(h, "smsSent")])]
    /\ UNCHANGED <<CallLog, mongo, freeSids, smsSent, last, pending, applied, leg>>

\* await twilioService.getRecordingUrl(CallSid)
StatusFetchesRecording ==
    /\ IsPresent(inflight.status)
    /\ LET h == inflight.status[1]
           recordingUrl == getRecordingUrl(h.env.recordings)
       IN
          /\ h.pc = "recording"
          /\ inflight' = [inflight EXCEPT
                            !.status = Some([h EXCEPT
                                !.recordingUrl = recordingUrl,
                                !.pc = IF IsPresent(recordingUrl) THEN "recordingUrl"
                                       ELSE "respond"])]
    /\ UNCHANGED <<store, CallLog, mongo, freeSids, smsSent, last, pending, applied, leg>>

\* await CallLog.findOneAndUpdate({callSid: CallSid}, {recordingUrl})
StatusStoreRecording ==
    /\ IsPresent(inflight.status)
    /\ LET h == inflight.status[1] IN
          /\ h.pc = "recordingUrl"
          /\ store' = FindOneAndUpdate(store, h.req.CallSid,
                                       RecordingUpdate(h.recordingUrl), h.env.db[3])
          /\ inflight' = [inflight EXCEPT !.status = Some([h EXCEPT !.pc = "respond"])]
    /\ UNCHANGED <<CallLog, mongo, freeSids, smsSent, last, pending, applied, leg>>

\* res.status(200).send('Status received')
StatusResponds ==
    /\ IsPresent(inflight.status)
    /\ LET h == inflight.status[1] IN
          /\ h.pc = "respond"
          /\ last' = [NoOutcome EXCEPT
                        !.handler = "status", !.req = h.req, !.responses = 1,
                        !.status = 200, !.text = "Status received",
                        !.recordingUrl = h.recordingUrl]
          /\ inflight' = [inflight EXCEPT !.status = Absent]
    /\ UNCHANGED <<store, CallLog, mongo, freeSids, smsSent, pending, applied, leg>>

\* a step of the status callback handler that is in flight
StatusStep ==
    \/ StatusStoreUpdate
    \/ StatusSendsSms
    \/ StatusStoreSmsSent
    \/ StatusFetchesRecording
    \/ StatusStoreRecording
    \/ StatusResponds

InterleaveNext ==
    \/ GatherReceived
    \/ GatherStoreUpdate
    \/ GatherResponds
    \/ StatusReceived
    \/ StatusStoreUpdate
    \/ StatusSendsSms
    \/ StatusStoreSmsSent
    \/ StatusFetchesRecording
    \/ StatusStoreRecording
    \/ StatusResponds

InterleaveSpec == InterleaveInit /\ [][InterleaveNext]_vars

-----------------------------------------------------------------------------
(* Properties *)

\* the decimal strings of 0..n, as they appear in a query string
Decimal(n) == FormatInt(n)

IsBlank(t) == \A i \in 1..Len(t) : t[i] \in WhiteSpace

\* the number a retryCount query value stands for (0 when it is missing)
QueryCount(query) ==
    IF query = Absent THEN 0
    ELSE CHOOSE n \in 0..(MaxRetryParam + 1) : query = Some(Decimal(n))

RedirectsOf(twiml) == {i \in 1..Len(twiml) : twiml[i].verb = "Redirect"}

\* C1: on a call leg that starts at the voice entry without retryCount and
\* on which the provider follows only the URLs it was sent, if every gather
\* so far ended with no speech or an empty or blank transcript, then the
\* controller has emitted at most 2 prompts (the closing message follows).
C1_SilentLegEndsWithinTwoPrompts == leg.silent => leg.prompts <= 2

\* C2: on a provider-driven call leg no emitted Redirect carries a
\* retryCount above 2, and from the moment the voice entry is invoked with
\* retryCount >= 2 no instruction containing a Gather is emitted.
C2_RetryCountCapped ==
    /\ \A i \in RedirectsOf(last.twiml) :
          QueryCount(last.twiml[i].url.retryCount) <= 2
    /\ \A i \in RedirectsOf(leg.twiml) :
          QueryCount(leg.twiml[i].url.retryCount) <= 2
    /\ leg.promptsAfterCap = 0
    /\ leg.capped => ~HasGather(leg.twiml)

\* the voice entry was invoked with retryCount 2 after two prompts, and the
\* leg has ended
C2_Witness == leg.capped /\ leg.pc = "ended" /\ leg.prompts = 2

\* C3: handleVoiceCall answers retryCount 0 (or none) with the full
\* reminder and a Redirect carrying 1, retryCount 1 with the short re-ask
\* and a Redirect carrying 2, and every retryCount >= 2 with the closing
\* message and a Hangup, without Gather or Redirect.
C3_VoiceRetryPolicy ==
    last.handler = "voice" =>
        LET n == QueryCount(last.req.retryCount) IN
        /\ n = 0 => last.twiml =
              << [verb |-> "Gather", input |-> "speech",
                  action |-> [path |-> GatherPath, retryCount |-> Absent],
                  say |-> MEDICATION_REMINDER_MESSAGE],
                 [verb |-> "Redirect",
                  url |-> [path |-> VoicePath, retryCount |-> Some(<<"1">>)]] >>
        /\ n = 1 => last.twiml =
              << [verb |-> "Gather", input |-> "speech",
                  action |-> [path |-> GatherPath, retryCount |-> Absent],
                  say |-> REPEAT_MESSAGE],
                 [verb |-> "Redirect",
                  url |-> [path |-> VoicePath, retryCount |-> Some(<<"2">>)]] >>
        /\ n >= 2 => last.twiml =
              << [verb |-> "Say", say |-> CLOSING_MESSAGE], [verb |-> "Hangup"] >>

\* the voice entry answered retryCount 3 with the closing instruction
C3_Witness ==
    /\ last.handler = "voice"
    /\ last.req.retryCount = Some(<<"3">>)
    /\ Len(last.twiml) = 2
    /\ last.twiml[2].verb = "Hangup"

AdherenceReplies ==
    {POSITIVE_RESPONSE_MESSAGE, NEGATIVE_RESPONSE_MESSAGE,
     PARTIAL_RESPONSE_MESSAGE, UNCLEAR_RESPONSE_MESSAGE}

\* C4: handleGather answers a missing, empty or blank SpeechResult, for
\* every retryCount r in the query, with exactly a Redirect to the voice
\* entry carrying r + 1; it runs no keyword analysis and speaks none of the
\* adherence replies.
C4_EmptyTranscriptRedirects ==
    (/\ last.handler = "gather"
     /\ last.req.SpeechResult = Absent \/ IsBlank(last.req.SpeechResult[1]))
    =>
    /\ last.twiml =
          << [verb |-> "Redirect",
              url |-> [path |-> VoicePath,
                       retryCount |-> Some(Decimal(QueryCount(last.req.retryCount) + 1))]] >>
    /\ ~last.classified
    /\ last.adherenceStatus \notin {"Full", "Partial", "None", "Unclear", "Unknown"}
    /\ \A i \in 1..Len(last.twiml) :
          last.twiml[i].verb = "Say" => last.twiml[i].say \notin AdherenceReplies

\* a blank transcript with retryCount=1 was answered by a Redirect carrying 2
C4_Witness ==
    /\ last.handler = "gather"
    /\ last.req.SpeechResult = Some(<<" ", " ">>)
    /\ last.req.retryCount = Some(<<"1">>)
    /\ last.twiml[1].verb = "Redirect"
    /\ last.twiml[1].url.retryCount = Some(<<"2">>)


\* C5: after handleGather handled a non-blank transcript for a stored
\* session and its store write succeeded, the session has status Answered,
\* the transcript as patientResponse, and the analysis verdict as
\* adherenceStatus.
C5_GatherPersistsVerdict ==
    (/\ last.handler = "gather"
     /\ last.classified
     /\ last.dbErrors = 0
     /\ last.req.CallSid \in DOMAIN store)
    =>
    LET doc == store[last.req.CallSid] IN
    /\ doc.status = "Answered"
    /\ doc.patientResponse = last.req.SpeechResult
    /\ doc.adherenceStatus = last.adherenceStatus

VerdictTable ==
    [pos \in BOOLEAN |->
        [neg \in BOOLEAN |->
            IF pos THEN (IF neg THEN "Partial" ELSE "Full")
                   ELSE (IF neg THEN "None" ELSE "Unclear")]]

\* C7: for every non-blank transcript the analysis runs and its verdict is
\* the table's entry for the two flags, whatever the medication-context
\* flag: None, Full, Partial or Unclear, never Unknown.
C7_VerdictIsFunctionOfFlags ==
    (/\ last.handler = "gather"
     /\ last.req.SpeechResult # Absent
     /\ ~IsBlank(last.req.SpeechResult[1]))
    =>
    /\ last.classified
    /\ last.adherenceStatus = VerdictTable[last.isPositive][last.isNegative]
    /\ last.adherenceStatus \in {"None", "Full", "Partial", "Unclear"}

\* a transcript with a medication word and neither kind of keyword: Unclear
C7_Witness ==
    /\ last.handler = "gather"
    /\ last.classified
    /\ last.hasMedicationContext
    /\ ~last.isPositive
    /\ ~last.isNegative
    /\ last.adherenceStatus = "Unclear"

\* C8: the verdict by the words of the transcript (case-insensitive): all
\* words negative keywords -> None; all words positive keywords -> Full; a
\* word of each list -> Partial; no word of any of the three lists ->
\* Unclear.
C8_KeywordWordsDecideVerdict ==
    (last.handler = "gather" /\ last.classified)
    =>
    LET ws == Words(ToLowerCase(last.req.SpeechResult[1]))
        pos == KeywordSet(positiveKeywords)
        neg == KeywordSet(negativeKeywords)
        med == KeywordSet(medicationKeywords)
    IN
    /\ ws \subseteq neg => last.adherenceStatus = "None"
    /\ ws \subseteq pos => last.adherenceStatus = "Full"
    /\ (ws \cap pos # {} /\ ws \cap neg # {}) => last.adherenceStatus = "Partial"
    /\ ws \cap (pos \cup neg \cup med) = {} => last.adherenceStatus = "Unclear"

\* the talk time of a status callback is below 5 seconds (none counts as 0)
DurationBelowFive(duration) ==
    duration = Absent \/ \E n \in 0..4 : duration = Some(Decimal(n))

\* C9: handleStatusCallback calls sendSms if and only if CallStatus is
\* no-answer, busy, failed or canceled, or it is completed and AnsweredBy is
\* not 'human' or the duration is below 5; it calls it at most once.
C9_FallbackCondition ==
    last.handler = "status" =>
        /\ last.smsCalls \in {0, 1}
        /\ last.smsCalls = 1 <=>
              \/ last.req.CallStatus \in {"no-answer", "busy", "failed", "canceled"}
              \/ /\ last.req.CallStatus = "completed"
                 /\ \/ last.req.AnsweredBy # Some("human")
                    \/ DurationBelowFive(last.req.CallDuration)

\* completed, answered by a person, 4 seconds: the fallback was dispatched
C9_Witness ==
    /\ last.handler = "status"
    /\ last.req.CallStatus = "completed"
    /\ last.req.AnsweredBy = Some("human")
    /\ last.req.CallDuration = Some(<<"4">>)
    /\ last.smsCalls = 1

\* completed, answered by a person, exactly 5 seconds: no fallback
C9_WitnessFive ==
    /\ last.handler = "status"
    /\ last.req.CallStatus = "completed"
    /\ last.req.AnsweredBy = Some("human")
    /\ last.req.CallDuration = Some(<<"5">>)
    /\ last.smsCalls = 0

\* C10: when one completed status callback that meets the fallback
\* condition is applied twice to a call, the fallback SMS is sent once: the
\* second application sends nothing.
C10_SameCallbackSendsOnce ==
    (/\ IsPresent(pending)
     /\ pending[1].handler = "status"
     /\ pending[1].CallStatus = "completed")
    =>
    /\ smsSent[pending[1].CallSid] <= 1
    /\ applied >= 2 => last.smsRequests = 0

\* C11: handling one status callback with CallStatus completed and
\* AnsweredBy other than 'human' calls sendSms exactly once, whatever the
\* duration; when the send succeeds and the session's writes go through, the
\* session's status after the handler is 'SMS Sent'.
C11_CompletedNotHumanSendsOnce ==
    (/\ last.handler = "status"
     /\ last.req.CallStatus = "completed"
     /\ last.req.AnsweredBy # Some("human"))
    =>
    /\ last.smsCalls = 1
    /\ last.smsRequests <= 1
    /\ (/\ last.smsOk
        /\ last.dbErrors = 0
        /\ last.req.CallSid \in DOMAIN store)
       => store[last.req.CallSid].status = "SMS Sent"

\* completed, picked up by a machine, 10 seconds: one SMS, status 'SMS Sent'
C11_Witness ==
    /\ last.handler = "status"
    /\ last.req.CallStatus = "completed"
    /\ last.req.AnsweredBy = Some("machine_start")
    /\ last.req.CallDuration = Some(<<"1","0">>)
    /\ last.smsCalls = 1
    /\ last.smsOk
    /\ "CA1" \in DOMAIN store
    /\ store["CA1"].status = "SMS Sent"

\* C12: handling a status callback with CallStatus completed, AnsweredBy
\* 'human' and a duration of 5 or more sends no SMS, looks up the recording
\* URL, and for a stored session whose writes go through leaves the status
\* at the completed value the callback carried and stores the recording URL
\* when the lookup returned one.
C12_CompletedHumanFetchesRecording ==
    (/\ last.handler = "status"
     /\ last.req.CallStatus = "completed"
     /\ last.req.AnsweredBy = Some("human")
     /\ ~DurationBelowFive(last.req.CallDuration))
    =>
    /\ last.smsCalls = 0
    /\ last.smsRequests = 0
    /\ last.recordingFetch
    /\ (last.dbErrors = 0 /\ last.req.CallSid \in DOMAIN store) =>
          LET doc == store[last.req.CallSid] IN
          /\ doc.status = last.req.CallStatus
          /\ IsPresent(last.recordingUrl) => doc.recordingUrl = last.recordingUrl

\* completed, a person, 10 seconds: no SMS, the first recording's URL stored
C12_Witness ==
    /\ last.handler = "status"
    /\ last.req.CallStatus = "completed"
    /\ last.req.AnsweredBy = Some("human")
    /\ last.req.CallDuration = Some(<<"1","0">>)
    /\ last.smsCalls = 0
    /\ "CA1" \in DOMAIN store
    /\ store["CA1"].status = "completed"
    /\ store["CA1"].recordingUrl = Some(RecordingUri2)

\* C13: when the fallback SMS fails (the provider rejects the request, or
\* sendSms rejects the destination before any request), the status callback
\* handler asks the provider at most once, makes no 'SMS Sent' write, so
\* that the status written at the start of the handler stands, and answers
\* 200 'Status received'.
C13_FailedSmsLeavesStatus ==
    (last.handler = "status" /\ last.smsCalls = 1)
    =>
    /\ last.req.To = Some(InvalidPhone) => (~last.smsOk /\ last.smsRequests = 0)
    /\ ~last.smsOk =>
          /\ last.smsCalls = 1
          /\ last.smsRequests <= 1
          /\ last.storeWrites = 1 + (IF IsPresent(last.recordingUrl) THEN 1 ELSE 0)
          /\ (last.dbErrors = 0 /\ last.req.CallSid \in DOMAIN store) =>
                store[last.req.CallSid].status = last.req.CallStatus
          /\ last.responses = 1
          /\ last.status = 200
          /\ last.text = "Status received"

\* a busy call, the provider refused the SMS: status stays 'busy', 200 sent
C13_Witness ==
    /\ last.handler = "status"
    /\ last.req.CallStatus = "busy"
    /\ last.smsCalls = 1
    /\ last.smsRequests = 1
    /\ ~last.smsOk
    /\ "CA1" \in DOMAIN store
    /\ store["CA1"].status = "busy"
    /\ last.status = 200

\* the stored values that stand for a finished call: the schema's literals
\* and the provider's final call statuses
TerminalStatuses ==
    {"Completed", "Failed", "Busy", "No Answer", "Voicemail Left", "SMS Sent",
     "completed", "failed", "busy", "no-answer", "canceled"}

\* C14: once a session's status is terminal, no later event for the call
\* makes it non-terminal, and the only change a later event makes to it is
\* to 'SMS Sent'.
C14_TerminalStatusStays ==
    [][\A c \in DOMAIN store :
          store[c].status \in TerminalStatuses =>
              /\ store'[c].status \in TerminalStatuses
              /\ \/ store'[c].status = store[c].status
                 \/ store'[c].status = "SMS Sent"]_vars

\* C15: in every reachable state the status of every stored session is one
\* of the ten values of the schema's enum.
C15_StatusInEnum ==
    \A c \in DOMAIN store : store[c].status \in StatusEnum

\* C16: no step of a status callback handler, whether the callback is
\* handled before, after or in between the steps of the gather result's
\* handler, changes the patientResponse or the adherenceStatus of a session:
\* it changes status and recordingUrl only.
C16_StatusCallbackFrame ==
    [][StatusStep =>
          \A c \in DOMAIN store :
              /\ c \in DOMAIN store'
              /\ \A f \in DOMAIN store[c] \ {"status", "recordingUrl"} :
                    store'[c][f] = store[c][f]]_vars

\* a status callback wrote its status and the recording URL to a session
\* that holds a transcript, while the gather handler had not yet replied
C16_Witness ==
    /\ IsPresent(store["CA1"].patientResponse)
    /\ store["CA1"].status = "completed"
    /\ IsPresent(store["CA1"].recordingUrl)
    /\ IsPresent(inflight.gather)
    /\ inflight.gather[1].req.CallSid = "CA1"
    /\ inflight.gather[1].pc = "reply"

\* C17: when the step that picks and builds the reply for a transcript with
\* speech throws, handleGather sends no error: its one response is status
\* 200 with the generic acknowledgment followed by a Hangup.
C17_ReplyFaultFallsBack ==
    (last.handler = "gather" /\ last.fault # "none")
    =>
    /\ last.responses = 1
    /\ last.status = 200
    /\ last.twiml =
          << [verb |-> "Say", say |-> "Thank you for your response. Have a nice day."],
             [verb |-> "Hangup"] >>

\* the reply for 'No' could not be built: the generic reply was sent
C17_Witness ==
    /\ last.handler = "gather"
    /\ last.req.SpeechResult = Some(SpokenNo)
    /\ last.fault = "say"
    /\ last.status = 200
    /\ Len(last.twiml) = 2
    /\ last.twiml[1].say = FALLBACK_REPLY_MESSAGE

\* what the caller or the provider gets back from a handler, and the
\* requests the handler made to the provider
Instruction(l) ==
    [responses |-> l.responses, status |-> l.status, twiml |-> l.twiml,
     text |-> l.text, details |-> l.details, callSidGiven |-> IsPresent(l.callSid),
     providerCalls |-> l.providerCalls, smsCalls |-> l.smsCalls,
     smsRequests |-> l.smsRequests]

\* what the provider (and the reply builder) answered to a handler
ProviderAnswers(l) ==
    [accepted |-> IsPresent(l.callSid), smsOk |-> l.smsOk,
     recordingUrl |-> l.recordingUrl, fault |-> l.fault]

\* C18: when the same call-initiate, gather-result or status-callback
\* request is handled twice with the same answers of the provider, once with
\* store writes that throw and once with store writes that succeed, the two
\* responses and the SMS and call requests made are identical.
C18_PersistenceFailureInvisible ==
    [][(/\ applied = 1
        /\ applied' = 2
        /\ last.handler \in {"initiate", "gather", "status"}
        /\ last'.dbErrors # last.dbErrors
        /\ ProviderAnswers(last') = ProviderAnswers(last))
       => Instruction(last') = Instruction(last)]_vars

\* a busy callback whose two store writes threw: the SMS was sent, 200 sent
C18_Witness ==
    /\ applied = 2
    /\ last.handler = "status"
    /\ last.req.CallStatus = "busy"
    /\ last.dbErrors = 2
    /\ last.smsRequests = 1
    /\ last.smsOk
    /\ last.status = 200

\* C19: initiateCall answers a request whose phone number is missing or is
\* not in E.164 format with a client error, a status between 400 and 499.
C19_ValidationIsClientError ==
    (/\ last.handler = "initiate"
     /\ \/ last.req.phoneNumber = Absent
        \/ ~MatchE164(last.req.phoneNumber[1]))
    => last.status \in 400..499

\* '+' followed by 1 to 15 digits, the first of them 1-9
PlusOneToFifteenDigits(s) ==
    /\ Len(s) \in 2..16
    /\ s[1] = "+"
    /\ s[2] \in {"1", "2", "3", "4", "5", "6", "7", "8", "9"}
    /\ \A i \in 3..Len(s) : s[i] \in {"0", "1", "2", "3", "4", "5", "6", "7", "8", "9"}

\* C20: the phone number test of call-initiate and makeCall, and that of
\* sendSms, let a string through to the provider exactly when it is '+'
\* followed by 1 to 15 digits whose first digit is 1-9.
C20_AcceptsOneToFifteenDigits ==
    /\ (last.handler = "initiate" /\ IsPresent(last.req.phoneNumber)) =>
          (last.providerCalls = 1 <=> PlusOneToFifteenDigits(last.req.phoneNumber[1]))
    /\ (last.handler = "status" /\ last.smsCalls = 1) =>
          (last.smsRequests = 1 <=> PlusOneToFifteenDigits(last.req.To[1]))

\* C21: when MONGODB_URI is set and the connection attempt has failed, the
\* object the controller uses for the store is the mock: the create and
\* update calls of the handlers that run afterwards do not throw.
C21_FailedConnectionDegradesToMock ==
    (mongo.uri /\ mongo.readyState = "disconnected")
    =>
    /\ CallLog = "mock"
    /\ last.handler \in {"initiate", "gather"} => last.dbErrors = 0

\* C22: with no MONGODB_URI set, getCallLogs answers 200 with an empty list
\* and total 0, for every page and limit.
C22_MockLogsAreEmpty ==
    (last.handler = "logs" /\ ~mongo.uri)
    =>
    /\ last.status = 200
    /\ last.logs = <<>>
    /\ last.pagination.total = 0

\* the call whose handler takes the step, if the step is a handler's
ActsFor(c) ==
    \/ /\ IsPresent(inflight.gather)
       /\ inflight'.gather # inflight.gather
       /\ inflight.gather[1].req.CallSid = c
    \/ /\ IsPresent(inflight.status)
       /\ inflight'.status # inflight.status
       /\ inflight.status[1].req.CallSid = c

\* C23: with the gather and status handlers of two calls interleaved step
\* by step, a step changes the session of a call only if it is a step of a
\* handler for that call, and whatever the other call's session holds the
\* reply to the transcript 'No' is the negative reply with a Hangup and the
\* answer to a status callback is 200 'Status received'.
C23_CallsAreIndependent ==
    [][/\ \A c \in CallSids : store'[c] # store[c] => ActsFor(c)
       /\ (last' # last /\ last'.handler = "gather") =>
             /\ last'.req.SpeechResult = Some(<<"N", "o">>)
             /\ last'.twiml = << [verb |-> "Say", say |-> NEGATIVE_RESPONSE_MESSAGE],
                                 [verb |-> "Hangup"] >>
       /\ (last' # last /\ last'.handler = "status") =>
             /\ last'.status = 200
             /\ last'.text = "Status received"]_vars

\* call CA2 got its reply while CA1's session had gone through a busy
\* callback with an SMS, and CA2's session holds only what its own gather wrote
C23_Witness ==
    /\ last.handler = "gather"
    /\ last.req.CallSid = "CA2"
    /\ store["CA1"].status = "SMS Sent"
    /\ store["CA2"].status = "Answered"
    /\ store["CA1"].patientResponse = Absent
    /\ store["CA2"].recordingUrl = Absent

\* the reply template of each verdict
ReplyTemplate(verdict) ==
    IF verdict = "None" THEN NEGATIVE_RESPONSE_MESSAGE
    ELSE IF verdict = "Full" THEN POSITIVE_RESPONSE_MESSAGE
    ELSE IF verdict = "Partial" THEN PARTIAL_RESPONSE_MESSAGE
    ELSE UNCLEAR_RESPONSE_MESSAGE

\* C24: for a transcript with speech, when building the reply does not
\* throw, handleGather sends exactly two verbs: a Say of the template of the
\* verdict (None: negative, Full: positive, Partial: partial, Unclear:
\* unclear) and a Hangup; no Gather and no Redirect.
C24_ReplyKeyedByVerdict ==
    (last.handler = "gather" /\ last.classified /\ last.fault = "none")
    =>
    /\ Len(last.twiml) = 2
    /\ last.twiml[1].verb = "Say"
    /\ last.twiml[1].say = ReplyTemplate(last.adherenceStatus)
    /\ last.twiml[2].verb = "Hangup"
    /\ last.adherenceStatus \in {"None", "Full", "Partial", "Unclear"}

\* a transcript with both kinds of keyword got the partial reply
C24_Witness ==
    /\ last.handler = "gather"
    /\ last.classified
    /\ last.adherenceStatus = "Partial"
    /\ Len(last.twiml) = 2
    /\ last.twiml[1].say = PARTIAL_RESPONSE_MESSAGE
    /\ last.twiml[2].verb = "Hangup"

\* C25: handling a call-initiate request whose phone number is missing or
\* is not '+' followed by 1 to 15 digits (the first 1-9) makes no
\* calls.create request, no CallLog.create call, and leaves the store and
\* the provider's call identifiers as they were.
C25_InvalidNumberCausesNoCall ==
    [][(/\ last' # last
        /\ last'.handler = "initiate"
        /\ \/ last'.req.phoneNumber = Absent
           \/ ~PlusOneToFifteenDigits(last'.req.phoneNumber[1]))
       =>
       /\ last'.providerCalls = 0
       /\ ~last'.created
       /\ last'.callSid = Absent
       /\ store' = store
       /\ freeSids' = freeSids]_vars

\* a number without the leading '+' was refused without any provider call
C25_Witness ==
    /\ last.handler = "initiate"
    /\ last.req.phoneNumber = Some(<<"1", "5", "5">>)
    /\ last.providerCalls = 0
    /\ ~last.created
    /\ freeSids = {"CA1", "CA2"}
    /\ store = NoDocuments

\* C26: a call-initiate that is answered 200 has made exactly one
\* calls.create request, to the requested number with the voice URL and the
\* status callback URL, and one CallLog.create call; with the mongoose
\* model and a write that succeeds, the store holds exactly one session
\* more than before, keyed by the call identifier the provider returned,
\* with status 'Initiated' and the requested number.
C26_InitiateCreatesOneSession ==
    [][(last' # last /\ last'.handler = "initiate" /\ last'.status = 200)
       =>
       /\ last'.providerCalls = 1
       /\ last'.callRequest =
             Some([url |-> "/api/twilio/voice", to |-> last'.req.phoneNumber[1],
                   statusCallback |-> "/api/twilio/status",
                   statusCallbackMethod |-> "POST"])
       /\ last'.created
       /\ IsPresent(last'.callSid)
       /\ (CallLog = "model" /\ last'.dbErrors = 0) =>
             LET sid == last'.callSid[1] IN
             /\ sid \notin DOMAIN store
             /\ DOMAIN store' = DOMAIN store \cup {sid}
             /\ \A c \in DOMAIN store : store'[c] = store[c]
             /\ store'[sid].callSid = sid
             /\ store'[sid].status = "Initiated"
             /\ store'[sid].patientPhoneNumber = last'.req.phoneNumber[1]]_vars

\* a second call was placed: the store holds the sessions of CA1 and CA2
C26_Witness ==
    /\ last.handler = "initiate"
    /\ last.status = 200
    /\ last.callSid = Some("CA2")
    /\ DOMAIN store = {"CA1", "CA2"}
    /\ store["CA2"].status = "Initiated"
    /\ store["CA2"].patientPhoneNumber = ValidPhone

\* the instruction of the retry policy for a retry count
RetryPolicyInstruction(n) ==
    IF n >= 2
    THEN << [verb |-> "Say", say |-> CLOSING_MESSAGE], [verb |-> "Hangup"] >>
    ELSE << [verb |-> "Gather", input |-> "speech",
             action |-> [path |-> GatherPath, retryCount |-> Absent],
             say |-> IF n = 0 THEN MEDICATION_REMINDER_MESSAGE ELSE REPEAT_MESSAGE],
            [verb |-> "Redirect",
             url |-> [path |-> VoicePath, retryCount |-> Some(Decimal(n + 1))]] >>

\* C27: whatever the store holds, a step of handleVoiceCall answers with
\* the instruction of the retry policy for the request's retryCount (0 when
\* the parameter is missing), makes no store call, and leaves the store,
\* the sent SMS and the provider's call identifiers unchanged.
C27_VoiceEntryIsStateless ==
    [][(last' # last /\ last'.handler = "voice")
       =>
       /\ last'.twiml = RetryPolicyInstruction(QueryCount(last'.req.retryCount))
       /\ last'.status = 200
       /\ last'.storeWrites = 0
       /\ ~last'.created
       /\ store' = store
       /\ smsSent' = smsSent
       /\ freeSids' = freeSids]_vars

\* the voice entry was asked without retryCount while the session held a
\* transcript: it answered with the full reminder
C27_Witness ==
    /\ last.handler = "voice"
    /\ last.req.retryCount = Absent
    /\ "CA1" \in DOMAIN store
    /\ IsPresent(store["CA1"].patientResponse)
    /\ last.twiml[1].verb = "Gather"
    /\ last.twiml[1].say = MEDICATION_REMINDER_MESSAGE


\* C28: an SMS is sent only by a step of handleStatusCallback whose
\* sendSms call succeeded; a step of initiateCall, handleVoiceCall or
\* handleGather calls sendSms zero times and sends nothing.
C28_SmsOnlyFromStatusCallback ==
    [][/\ (smsSent' # smsSent)
          => /\ last'.handler = "status"
             /\ last'.smsCalls = 1
             /\ last'.smsOk
             /\ smsSent' = [smsSent EXCEPT ![last'.req.CallSid] = @ + 1]
       /\ (last' # last /\ last'.handler \in {"initiate", "voice", "gather"})
          => /\ last'.smsCalls = 0
             /\ last'.smsRequests = 0
             /\ ~last'.smsOk
             /\ smsSent' = smsSent]_vars

\* a status callback sent the SMS for a call whose transcript an earlier
\* gather step had stored without sending anything
C28_Witness ==
    /\ last.handler = "status"
    /\ last.smsCalls = 1
    /\ last.smsOk
    /\ smsSent["CA1"] = 1
    /\ "CA1" \in DOMAIN store
    /\ IsPresent(store["CA1"].patientResponse)
    /\ store["CA1"].status = "SMS Sent"


\* C29: a document with status 'Answered' holds a transcript that is not
\* blank, and the status becomes 'Answered' only in a step of handleGather
\* for that call whose SpeechResult is not empty after trimming.
C29_AnsweredOnlyThroughGather ==
    /\ [](\A c \in DOMAIN store :
            store[c].status = "Answered"
            => /\ IsPresent(store[c].patientResponse)
               /\ ~IsBlank(store[c].patientResponse[1]))
    /\ [][\A c \in DOMAIN store' :
            (/\ store'[c].status = "Answered"
             /\ (c \notin DOMAIN store \/ store[c].status # "Answered"))
            => /\ last'.handler = "gather"
               /\ last'.req.CallSid = c
               /\ ~IsBlank(SpeechOrEmpty(last'.req.SpeechResult))
               /\ store'[c].patientResponse = last'.req.SpeechResult]_vars

\* a gather result with speech was stored: the session is 'Answered' and
\* holds the transcript
C29_Witness ==
    /\ last.handler = "gather"
    /\ last.classified
    /\ last.storeWrites = 1
    /\ last.dbErrors = 0
    /\ "CA1" \in DOMAIN store
    /\ store["CA1"].status = "Answered"
    /\ store["CA1"].patientResponse = Some(SpokenYes)


\* what the provider's answer to the recording lookup holds: the first
\* recording's URL, or nothing for an empty list or an error
FirstRecording(recordings) ==
    IF recordings = Absent \/ recordings = Some(<<>>) THEN Absent
    ELSE Some(Head(recordings[1]))

\* the status callback handler in flight stands at the step pc
StatusAt(pc) == IsPresent(inflight.status) /\ inflight.status[1].pc = pc

\* C30: the recording lookup of a completed status callback yields the
\* first recording's URL, or nothing when the list is empty or the provider
\* fails; on nothing the handler writes nothing to the store (recordingUrl
\* and status stay as they are) and goes on to answer 200 'Status received'.
C30_RecordingFailureIsSwallowed ==
    [][/\ (StatusAt("recording") /\ inflight'.status # inflight.status)
          => LET h == inflight.status[1]
                 after == inflight'.status[1]
             IN  /\ h.req.CallStatus = "completed"
                 /\ after.recordingUrl = FirstRecording(h.env.recordings)
                 /\ after.recordingUrl = Absent
                    => /\ store' = store
                       /\ after.pc = "respond"
       /\ (StatusAt("respond") /\ inflight'.status # inflight.status)
          => /\ last'.handler = "status"
             /\ last'.status = 200
             /\ last'.text = "Status received"
             /\ last'.responses = 1
             /\ last'.recordingUrl = inflight.status[1].recordingUrl
             /\ store' = store]_vars

\* the provider failed on the recording lookup of a completed call: the
\* handler holds no URL, the session keeps its status and has no recording
\* URL, and the handler is about to acknowledge the event
C30_Witness ==
    /\ StatusAt("respond")
    /\ inflight.status[1].req.CallStatus = "completed"
    /\ inflight.status[1].req.CallSid = "CA1"
    /\ inflight.status[1].env.recordings = Absent
    /\ inflight.status[1].recordingUrl = Absent
    /\ store["CA1"].status = "completed"
    /\ store["CA1"].recordingUrl = Absent


\* C31: a session with status 'SMS Sent' belongs to a call for which at
\* least one fallback SMS was sent successfully, and the status becomes
\* 'SMS Sent' only in the store write of a status callback for that call
\* that stands after its own successful send.
C31_SmsSentFollowsSuccessfulSend ==
    /\ [](\A c \in DOMAIN store : store[c].status = "SMS Sent" => smsSent[c] >= 1)
    /\ [][\A c \in DOMAIN store :
            (store'[c].status = "SMS Sent" /\ store[c].status # "SMS Sent")
            => /\ StatusAt("smsSent")
               /\ inflight.status[1].req.CallSid = c
               /\ inflight.status[1].env.smsOk
               /\ smsSent[c] >= 1
               /\ smsSent' = smsSent]_vars

\* the SMS for a busy call was sent and the session was then marked
C31_Witness ==
    /\ store["CA1"].status = "SMS Sent"
    /\ smsSent["CA1"] = 1
    /\ IsPresent(inflight.status)
    /\ inflight.status[1].req.CallSid = "CA1"
    /\ inflight.status[1].req.CallStatus = "busy"
    /\ inflight.status[1].pc = "respond"


\* C32: a step of handleGather whose SpeechResult is missing, empty or
\* only white space makes no store call and leaves every session as it
\* was: status, patientResponse and adherenceStatus keep their values.
C32_EmptyGatherLeavesSessionUnchanged ==
    [][(/\ last' # last
        /\ last'.handler = "gather"
        /\ IsBlank(SpeechOrEmpty(last'.req.SpeechResult)))
       =>
       /\ last'.storeWrites = 0
       /\ ~last'.classified
       /\ store' = store
       /\ smsSent' = smsSent]_vars

\* a white-space transcript arrived for a session that already held a
\* classified answer: the session still holds it
C32_Witness ==
    /\ last.handler = "gather"
    /\ last.req.SpeechResult = Some(<<" ", " ">>)
    /\ last.storeWrites = 0
    /\ RedirectsOf(last.twiml) # {}
    /\ "CA1" \in DOMAIN store
    /\ store["CA1"].status = "Answered"
    /\ store["CA1"].patientResponse = Some(SpokenNo)


\* C33: a step of handleStatusCallback asks the provider for the recording
\* exactly when CallStatus is 'completed', whether or not it sent the
\* fallback SMS; when every store call of the step succeeds, the stored
\* recording URL is the one found and the status is 'SMS Sent' after a
\* successful fallback and 'completed' otherwise.
C33_RecordingFetchForCompletedOnly ==
    [][(last' # last /\ last'.handler = "status")
       =>
       LET c == last'.req.CallSid IN
       /\ last'.recordingFetch <=> (last'.req.CallStatus = "completed")
       /\ ~last'.recordingFetch => last'.recordingUrl = Absent
       /\ (/\ c \in DOMAIN store
           /\ last'.recordingFetch
           /\ IsPresent(last'.recordingUrl)
           /\ last'.dbErrors = 0)
          => /\ store'[c].recordingUrl = last'.recordingUrl
             /\ store'[c].status = IF last'.smsOk THEN "SMS Sent" ELSE "completed"]_vars

\* a completed call that a machine picked up: the SMS was sent, the
\* recording was looked up and stored, and the session is still 'SMS Sent'
C33_Witness ==
    /\ last.handler = "status"
    /\ last.req.CallStatus = "completed"
    /\ last.smsOk
    /\ last.recordingFetch
    /\ IsPresent(last.recordingUrl)
    /\ last.storeWrites = 3
    /\ "CA1" \in DOMAIN store
    /\ store["CA1"].status = "SMS Sent"
    /\ store["CA1"].recordingUrl = last.recordingUrl


\* C34: a step of initiateCall whose request the provider rejected (one
\* calls.create request, no call identifier) answers 500 'Failed to
\* initiate call' and leaves the store as it was; a step of initiateCall
\* adds at most the session of the identifier the provider returned, and
\* every session belongs to an identifier the provider has handed out.
C34_RejectedCallCreatesNoSession ==
    /\ [](\A c \in DOMAIN store : c \notin freeSids)
    /\ [][(last' # last /\ last'.handler = "initiate")
          =>
          /\ (last'.providerCalls = 1 /\ last'.callSid = Absent)
             => /\ store' = store
                /\ freeSids' = freeSids
                /\ ~last'.created
                /\ last'.status = 500
                /\ last'.text = "Failed to initiate call"
                /\ last'.responses = 1
          /\ store' # store
             => /\ IsPresent(last'.callSid)
                /\ last'.status = 200
                /\ DOMAIN store' = DOMAIN store \cup {last'.callSid[1]}]_vars

\* the provider rejected the request for a valid number: the caller got
\* the error and the store holds no session
C34_Witness ==
    /\ last.handler = "initiate"
    /\ last.req.phoneNumber = Some(ValidPhone)
    /\ last.providerCalls = 1
    /\ last.callSid = Absent
    /\ last.status = 500
    /\ last.details = "provider error"
    /\ store = NoDocuments
    /\ CallLog = "model"


====
